---- MODULE Spec2Model ----
(***************************************************************************)
(* Model of cc-session: the Session state machine (src/src/session.ts) and *)
(* the renderable-message pipeline (src/src/chat-message.ts).              *)
(*                                                                         *)
(* The specifications share the variables:                                 *)
(*   Spec      send / stream loop / cancel / load under the JavaScript     *)
(*             run-to-completion scheduling (macrotasks + microtask queue) *)
(*   SpecSend  one send() on a new Session with a tallying subscriber      *)
(*   SpecPipe  processIncomingMessage applied to arbitrary fragment        *)
(*             sequences (linker, coalescer, differ, aggregates)           *)
(*   SpecFan   subscribe / unsubscribe / noticeSubscribers with callbacks  *)
(*             that re-enter the Session during a fan-out                  *)
(*   SpecLoad  loadFromServer / resumeFrom with histories that write todos *)
(*             and tools, interleaved with live fragments                  *)
(*   SpecRead  processIncomingMessage fed with Read invocations and their  *)
(*             results (coalescer, live feed against load)                 *)
(*   SpecUsage processIncomingMessage fed with usage reports and results   *)
(*   SpecNew   new Session(argument) for every kind of argument, then Spec *)
(*   SpecContinue AutoContinueSession.send (src/src/cas-client.ts): sends  *)
(*             that continue in a new session of the manager               *)
(*   SpecStream one send() whose stream carries reads, results, todo       *)
(*             writes, usage, tools and a result                           *)
(*   SpecThrow the send of SpecStream with a subscriber whose callback     *)
(*             throws during the fan-out of a fragment                     *)
(*   SpecTime  a send, live fragments and loads with timestamps, under a   *)
(*             clock that advances (lastModifiedTime)                      *)
(*   SpecClean SessionManager.cleanupEmptySessions with its grace period;  *)
(*             SpecCleanFair adds that a timer that was set expires        *)
(***************************************************************************)
EXTENDS Integers, Sequences, FiniteSets, TLC

\* ------------------------------------------------------------------ bounds
\* calls of the Session's API (send, cancel, loadFromServer) in one run
MaxCalls == 3
\* fragments delivered by the transport over all streams of one run (Spec)
MaxFrags == 1
\* fragments delivered on the stream of the one send of SpecSend
MaxSendFrags == 3
\* fragments applied in one run of SpecPipe
MaxPipeFrags == 4
\* direct calls of processIncomingMessage in one run of SpecLoad
MaxLive == 1
\* fragments applied in one run of SpecRead
MaxReadFrags == 5
\* fragments applied in one run of SpecUsage
MaxUsageFrags == 5
\* length of a fetched history (SpecLoad)
MaxHistory == 3
\* subscriptions ever registered in one run (SpecFan)
MaxSubs == 3
\* notifications emitted in one run (SpecFan)
MaxEvents == 3
\* fragments delivered by the transport in one run of SpecContinue
MaxContinueFrags == 2
\* nesting of continuations started by one send (SpecContinue)
MaxDelegations == 2
\* fragments delivered on the stream of the one send of SpecStream
MaxStreamFrags == 4
\* fragments delivered on the stream of the one send of SpecThrow
MaxThrowFrags == 2
\* the last reading of the clock (SpecTime)
MaxClock == 3
\* sessions in the manager's list, and grace periods running at once
\* (SpecClean)
MaxSessions == 2
MaxTimers == 2

\* ------------------------------------------------------------- data model
\* JavaScript null / undefined for ids, promises and tokens
NULL == "null"

\* A content block (types.ts MessageContentBlock) with uniform fields:
\*   text        : type only
\*   tool_use    : id, name, input (a list of atomic inputs)
\*   tool_result : id = tool_use_id, is_error, rid = identity of the result
\*                 content, count = the number a coalesced result reports
Block(type, id, name, input, is_error, rid, count) ==
    [type |-> type, id |-> id, name |-> name, input |-> input,
     is_error |-> is_error, rid |-> rid, count |-> count]

TextBlock == Block("text", 0, "", <<>>, FALSE, 0, 0)
ToolUseBlock(id, name, input) == Block("tool_use", id, name, <<input>>, FALSE, 0, 0)
ToolResultBlock(id, is_error, rid) == Block("tool_result", id, "", <<>>, is_error, rid, 0)
\* the undefined toolResult slot of a part
NoResult == Block("none", 0, "", <<>>, FALSE, 0, 0)

\* ChatMessagePart: a content block plus the mutable toolResult slot
ChatMessagePart(content) == [content |-> content, toolResult |-> NoResult]

\* ChatMessage: id, type, ordered parts, timestamp; ref is the object
\* identity (used by the differ's reference comparison and by includes()).
\* A turn made from a fragment without a timestamp gets Date.now()
\* (chat-message.ts 143, 150), for which the order of creation stands
ChatMessage(type, content, id, ref) ==
    [type |-> type, content |-> content, id |-> id, ref |-> ref, timestamp |-> ref]

NoTurn == ChatMessage("none", <<>>, 0, 0)

\* An SDK fragment. uuid 0 = no uuid field; session_id "" = empty;
\* usage <<>> = absent, else <<input, cache-write, cache-read, output>>;
\* total_cost_usd <<>> = undefined, else <<cost>>; model "" = absent;
\* modelUsage = set of <<model, contextWindow>> pairs; tools <<>> = no
\* tools array, else <<the array>>; timestamp 0 = no timestamp field.
Fragment(type, subtype, uuid, content) ==
    [type |-> type, subtype |-> subtype, uuid |-> uuid, content |-> content,
     session_id |-> "", usage |-> <<>>, total_cost_usd |-> <<>>,
     model |-> "", modelUsage |-> {}, tools |-> <<>>, timestamp |-> 0]

UsageSummary(tokens, cost, ctx) ==
    [totalTokens |-> tokens, totalCost |-> cost, contextWindow |-> ctx]

\* A broadcast message (types.ts BroadcastMessage) with uniform fields
Event(type, sessionId, messageId, toolUseId, toolResult, count, active, usage) ==
    [type |-> type, sessionId |-> sessionId, messageId |-> messageId,
     toolUseId |-> toolUseId, toolResult |-> toolResult,
     messageCount |-> count, isActive |-> active, usage |-> usage]

ZeroUsage == UsageSummary(0, 0, 0)

\* ------------------------------------------------------------- utilities
SetMax(S) == CHOOSE x \in S : \A y \in S : y <= x

RECURSIVE SumSeq(_)
SumSeq(s) == IF s = <<>> THEN 0 ELSE Head(s) + SumSeq(Tail(s))

\* --------------------------------------------- chat-message.ts: rendering
\* extractMessageUuid: the fragment's uuid, else a fresh nanoid (modelled as
\* the negated fresh object reference, distinct from every uuid and from
\* every other fresh id)
extractMessageUuid(message, ref) == IF message.uuid # 0 THEN message.uuid ELSE 0 - ref

\* extractMessageTimestamp (91-110) ?? Date.now() (143, 150)
Stamped(turn, message) ==
    IF message.timestamp # 0 THEN [turn EXCEPT !.timestamp = message.timestamp] ELSE turn

\* variant of createChatMessageFromSDKMessage that makes a turn without
\* parts of a stream_event too
createChatMessageOfEveryType(message, ref) ==
    IF message.type \in {"user", "assistant"}
    THEN Stamped(ChatMessage(message.type,
                             [k \in 1..Len(message.content) |->
                                 ChatMessagePart(message.content[k])],
                             extractMessageUuid(message, ref), ref), message)
    ELSE Stamped(ChatMessage(message.type, <<>>, extractMessageUuid(message, ref), ref),
                 message)

\* createChatMessageFromSDKMessage: user/assistant turns get one part per
\* content block; a stream_event yields no turn; every other type yields a
\* turn without parts
createChatMessageFromSDKMessage(message, ref) ==
    IF message.type \in {"user", "assistant"}
    THEN Stamped(ChatMessage(message.type,
                             [k \in 1..Len(message.content) |->
                                 ChatMessagePart(message.content[k])],
                             extractMessageUuid(message, ref), ref), message)
    ELSE IF message.type = "stream_event" THEN NoTurn
    ELSE Stamped(ChatMessage(message.type, <<>>, extractMessageUuid(message, ref), ref),
                 message)

\* ------------------------------------------ chat-message.ts: result linker
\* index of the first part of `message` that is an invocation with this id
\* (the inner for-loop stops at the first match), 0 if there is none
FirstToolUsePart(message, toolUseId) ==
    LET hits == {k \in 1..Len(message.content) :
                    /\ message.content[k].content.type = "tool_use"
                    /\ message.content[k].content.id = toolUseId}
    IN IF hits = {} THEN 0 ELSE CHOOSE k \in hits : \A j \in hits : k <= j

\* first loop of findMostRecentToolUse, newest to oldest: the first matching
\* part of a turn is returned if it has no result; if it has one, the inner
\* loop breaks and the scan moves to the next older turn
RECURSIVE ScanWithoutResult(_, _, _)
ScanWithoutResult(messages, toolUseId, index) ==
    IF index = 0 THEN <<0, 0>>
    ELSE LET message == messages[index]
             k == FirstToolUsePart(message, toolUseId)
         IN IF message.type # "assistant" \/ k = 0
            THEN ScanWithoutResult(messages, toolUseId, index - 1)
            ELSE IF message.content[k].toolResult = NoResult
            THEN <<index, k>>
            ELSE ScanWithoutResult(messages, toolUseId, index - 1)

\* second loop (fallback): the most recent matching part, result or not
RECURSIVE ScanAny(_, _, _)
ScanAny(messages, toolUseId, index) ==
    IF index = 0 THEN <<0, 0>>
    ELSE LET message == messages[index]
             k == FirstToolUsePart(message, toolUseId)
         IN IF message.type # "assistant" \/ k = 0
            THEN ScanAny(messages, toolUseId, index - 1)
            ELSE <<index, k>>

\* findMostRecentToolUse: <<turn index, part index>>, <<0, 0>> = undefined
findMostRecentToolUse(messages, toolUseId) ==
    LET first == ScanWithoutResult(messages, toolUseId, Len(messages))
    IN IF first # <<0, 0>> THEN first
       ELSE ScanAny(messages, toolUseId, Len(messages))

\* the tool_result loop of appendRenderableMessage over blocks k..: each
\* match sets the part's slot in place, records the owning turn once in
\* updatedMessages and appends one entry to toolResultUpdates
RECURSIVE LinkBlocks(_, _, _)
LinkBlocks(acc, blocks, k) ==
    IF k > Len(blocks) THEN acc
    ELSE LET block == blocks[k]
             match == findMostRecentToolUse(acc.messages, block.id)
             owner == acc.messages[match[1]]
         IN IF block.type = "tool_result" /\ match # <<0, 0>>
            THEN LinkBlocks(
                   [messages |-> [acc.messages EXCEPT
                                    ![match[1]].content[match[2]].toolResult = block],
                    updatedMessages |->
                        IF \E j \in 1..Len(acc.updatedMessages) :
                               acc.updatedMessages[j].ref = owner.ref
                        THEN acc.updatedMessages
                        ELSE Append(acc.updatedMessages, [id |-> owner.id, ref |-> owner.ref]),
                    toolResultUpdates |->
                        Append(acc.toolResultUpdates,
                               [id |-> owner.id, ref |-> owner.ref,
                                toolUseId |-> block.id, toolResult |-> block])],
                   blocks, k + 1)
            ELSE LinkBlocks(acc, blocks, k + 1)

\* appendRenderableMessage: link the tool results of a user fragment, then
\* push the rendered turn (if any). Returns the mutated list and the
\* AppendRenderableMessageResult fields.
appendRenderableMessage(messages, incoming, ref) ==
    LET start == [messages |-> messages, updatedMessages |-> <<>>,
                  toolResultUpdates |-> <<>>]
        linked == IF incoming.type = "user"
                  THEN LinkBlocks(start, incoming.content, 1)
                  ELSE start
        rendered == createChatMessageFromSDKMessage(incoming, ref)
    IN [messages |-> IF rendered # NoTurn THEN Append(linked.messages, rendered)
                     ELSE linked.messages,
        addedMessage |-> rendered,
        updatedMessages |-> linked.updatedMessages,
        toolResultUpdates |-> linked.toolResultUpdates]

\* ------------------------------------------- chat-message.ts: coalescer
isReadToolUse(message) ==
    /\ message.type = "assistant"
    /\ \E k \in 1..Len(message.content) :
          /\ message.content[k].content.type = "tool_use"
          /\ message.content[k].content.name = "Read"

\* only the FIRST part's result slot is inspected
hasSuccessfulToolResult(message) ==
    /\ message.type = "assistant"
    /\ Len(message.content) > 0
    /\ message.content[1].toolResult # NoResult
    /\ ~message.content[1].toolResult.is_error

\* the input of the first invocation part of a turn (find(...) in the code)
FirstToolUseInput(message) ==
    LET hits == {k \in 1..Len(message.content) :
                    message.content[k].content.type = "tool_use"}
    IN IF hits = {} THEN <<>>
       ELSE message.content[CHOOSE k \in hits : \A j \in hits : k <= j].content.input

RECURSIVE FlattenInputs(_)
FlattenInputs(batch) ==
    IF batch = <<>> THEN <<>>
    ELSE FirstToolUseInput(Head(batch)) \o FlattenInputs(Tail(batch))

\* variant of createCoalescedReadMessage that names the synthetic invocation
\* "Read"
createCoalescedAsRead(batch, ref) ==
    LET toolUse == Block("tool_use", 0 - ref, "Read", FlattenInputs(batch),
                         FALSE, 0, 0)
        toolResult == Block("tool_result", 0 - ref, "", <<>>, FALSE, 0, Len(batch))
    IN [ChatMessage("assistant",
                    <<[content |-> toolUse, toolResult |-> toolResult]>>,
                    batch[1].id, ref) EXCEPT !.timestamp = batch[1].timestamp]

\* variant of createCoalescedReadMessage that gives the synthetic turn an
\* id and a timestamp of its own
createCoalescedWithOwnId(batch, ref) ==
    LET toolUse == Block("tool_use", 0 - ref, "ReadCoalesced", FlattenInputs(batch),
                         FALSE, 0, 0)
        toolResult == Block("tool_result", 0 - ref, "", <<>>, FALSE, 0, Len(batch))
    IN ChatMessage("assistant",
                   <<[content |-> toolUse, toolResult |-> toolResult]>>,
                   0 - ref, ref)

\* variant of createCoalescedReadMessage whose invocation keeps the id of
\* the batch's first invocation
createCoalescedKeepsToolUseId(batch, ref) ==
    LET toolUse == Block("tool_use", batch[1].content[1].content.id, "ReadCoalesced",
                         FlattenInputs(batch), FALSE, 0, 0)
        toolResult == Block("tool_result", toolUse.id, "", <<>>, FALSE, 0, Len(batch))
    IN [ChatMessage("assistant",
                    <<[content |-> toolUse, toolResult |-> toolResult]>>,
                    batch[1].id, ref) EXCEPT !.timestamp = batch[1].timestamp]

\* createCoalescedReadMessage: a new object with the id and the timestamp
\* of the batch's first turn, one ReadCoalesced invocation (id "coalesced_<random>", modelled as
\* the negative id 0 - ref) carrying the batch's inputs in order, and a
\* successful result that states the batch length
createCoalescedReadMessage(batch, ref) ==
    LET toolUse == Block("tool_use", 0 - ref, "ReadCoalesced", FlattenInputs(batch),
                         FALSE, 0, 0)
        toolResult == Block("tool_result", 0 - ref, "", <<>>, FALSE, 0, Len(batch))
    IN [ChatMessage("assistant",
                    <<[content |-> toolUse, toolResult |-> toolResult]>>,
                    batch[1].id, ref) EXCEPT !.timestamp = batch[1].timestamp]

\* the index after the run of mergeable turns that starts at `next`
RECURSIVE RunEnd(_, _)
RunEnd(messages, next) ==
    IF next > Len(messages) THEN next
    ELSE IF ~isReadToolUse(messages[next]) \/ ~hasSuccessfulToolResult(messages[next])
    THEN next
    ELSE RunEnd(messages, next + 1)

\* coalesceReadMessages from position index; a synthetic turn created for the
\* run starting at index gets the fresh reference ref + index
RECURSIVE CoalesceFrom(_, _, _)
CoalesceFrom(messages, index, ref) ==
    IF index > Len(messages) THEN <<>>
    ELSE LET message == messages[index]
             next == RunEnd(messages, index + 1)
         IN IF /\ isReadToolUse(message)
               /\ hasSuccessfulToolResult(message)
               /\ next - index > 1
            THEN <<createCoalescedReadMessage(SubSeq(messages, index, next - 1), ref + index)>>
                 \o CoalesceFrom(messages, next, ref)
            ELSE <<message>> \o CoalesceFrom(messages, index + 1, ref)

coalesceReadMessages(messages, ref) == CoalesceFrom(messages, 1, ref)

\* ------------------------------------------------- session.ts: the differ
\* buildMessageMap: insertion-ordered map id -> turn, first occurrence wins;
\* represented as the list of its values in insertion order
RECURSIVE BuildMapFrom(_, _, _)
BuildMapFrom(messages, index, map) ==
    IF index > Len(messages) THEN map
    ELSE IF \E j \in 1..Len(map) : map[j].id = messages[index].id
    THEN BuildMapFrom(messages, index + 1, map)
    ELSE BuildMapFrom(messages, index + 1, Append(map, messages[index]))

buildMessageMap(messages) == BuildMapFrom(messages, 1, <<>>)

MapHas(map, id) == \E j \in 1..Len(map) : map[j].id = id
MapGet(map, id) == map[CHOOSE j \in 1..Len(map) : map[j].id = id]

\* variant of diffMessages that walks the list next instead of its id map
diffMessagesOverList(previous, next, explicitlyUpdated) ==
    LET previousMap == buildMessageMap(previous)
        nextMap == buildMessageMap(next)
        explicitIds == {explicitlyUpdated[j].id : j \in 1..Len(explicitlyUpdated)}
        IsAdded(m) == ~MapHas(previousMap, m.id)
        IsRemoved(m) == ~MapHas(nextMap, m.id)
        IsUpdated(m) == \/ m.id \in explicitIds
                        \/ /\ MapHas(previousMap, m.id)
                           /\ MapGet(previousMap, m.id).ref # m.ref
        gone == SelectSeq(previousMap, IsRemoved)
    IN [added |-> SelectSeq(next, IsAdded),
        updated |-> SelectSeq(next, IsUpdated),
        removed |-> [j \in 1..Len(gone) |-> gone[j].id]]

\* variant of diffMessages without the explicit-update set (664, 679-682)
diffMessagesByReference(previous, next, explicitlyUpdated) ==
    diffMessagesOverList(previous, buildMessageMap(next), <<>>)

\* diffMessages: added (next's order), updated (next's order, once per id),
\* removed (previous' order, ids)
diffMessages(previous, next, explicitlyUpdated) ==
    LET previousMap == buildMessageMap(previous)
        nextMap == buildMessageMap(next)
        explicitIds == {explicitlyUpdated[j].id : j \in 1..Len(explicitlyUpdated)}
        IsAdded(m) == ~MapHas(previousMap, m.id)
        IsRemoved(m) == ~MapHas(nextMap, m.id)
        IsUpdated(m) == \/ m.id \in explicitIds
                        \/ /\ MapHas(previousMap, m.id)
                           /\ MapGet(previousMap, m.id).ref # m.ref
        gone == SelectSeq(previousMap, IsRemoved)
    IN [added |-> SelectSeq(nextMap, IsAdded),
        updated |-> SelectSeq(nextMap, IsUpdated),
        removed |-> [j \in 1..Len(gone) |-> gone[j].id]]

\* ------------------------------------------------------------------ state
VARIABLES
    \* Session fields (session.ts 33-58). queryPromise and cancellationToken
    \* hold the number of the send() call that created the object, 0 = null
    messages, messageCount, claudeSessionId, error, busy, isLoading,
    queryPromise, loadingPromise, cancellationToken, usageData,
    currentMainLoopModel, summary,
    \* the heap: next fresh object reference, and the cancelled flag of every
    \* token object ever minted (token c is the one minted by send caller c)
    nextRef, tokenCancelled,
    \* each send() call c: its position in send; the promise its async
    \* block returns (state and value); the send() calls awaiting that
    \* promise, in registration order; what send() returned to its caller
    pc, promise, reactions, outcome,
    \* the fragments each caller's stream has yielded so far
    streamLog,
    \* the JavaScript microtask queue (promise reactions ready to run)
    mq,
    \* calls made so far: of send / cancel / loadFromServer, and direct
    \* calls of processIncomingMessage
    calls, applied,
    \* the fragments passed to processIncomingMessage directly, in order
    fed,
    \* new Session(argument): the argument, the error the constructor threw
    \* and the client field of the Session
    constructed,
    \* todos, tools and the two latches of deferred notifications
    todos, tools, pendingTodosBroadcast, pendingToolsBroadcast,
    \* loads: the getSession calls started so far (a load's promise is named
    \* by the number of its fetch), what the loadFromServer / resumeFrom
    \* calls returned, in order (0 = undefined), the state of the last
    \* load's promise
    fetches, returned, loadState, fetched,
    \* what the last handler emitted through noticeSubscribers, in order
    emitted,
    \* a subscriber that tallies the notifications (when observing): the ids
    \* of message_added and message_removed, the isActive flag of the last
    \* session_info, the number of active -> inactive changes, and the list
    \* of ids it holds after applying every notification (observed)
    observing, addedIds, removedIds, lastInfoActive, deactivations, observed,
    \* subscribers: the keys of the subscribers Map (subscription numbers;
    \* the Map iterates them in insertion order, which is their numeric
    \* order), the subscriptions made so far, the calls of callbacks so far
    \* as <<notification, subscription>>, the stack of running
    \* noticeSubscribers loops, the notifications emitted so far and, for
    \* each, the keys of the Map when its loop started
    subscribers, subCount, delivered, stack, notices, audience,
    \* what the subscribe() calls made from outside a callback did, in order:
    \* the subscription they minted (0 = none) and the error they threw
    subscribed,
    \* AutoContinueSession / AutoContinueSessionManager (cas-client.ts
    \* 462-601): the {continue, maxTurns} options; the sessions the manager
    \* created for continuations, newest first (the Session of the variables
    \* above is the manager's oldest and is not repeated here); what the
    \* sends that continued returned, per caller
    options, sessionsList, continuations,
    \* SessionManager.cleanupEmptySessions (chat-message.ts 548-560): the
    \* sessions whose grace period is running, in the order of the setTimeout
    \* calls (equal delays expire in that order)
    timers,
    \* the Session's lastModifiedTime (45) and the clock Date.now() reads
    lastModifiedTime, now

sessVars == <<messages, messageCount, claudeSessionId, error, busy, isLoading,
              queryPromise, loadingPromise, cancellationToken, usageData,
              currentMainLoopModel, nextRef, tokenCancelled, todos, tools,
              pendingTodosBroadcast, pendingToolsBroadcast, summary>>
aggVars == <<todos, tools, pendingTodosBroadcast, pendingToolsBroadcast, summary,
             lastModifiedTime>>
loadVars == <<fetches, returned, loadState, fetched>>
autoVars == <<options, sessionsList, continuations, timers>>
pipeVars == <<applied, fed, constructed, autoVars, now>>
callVars == <<pc, promise, reactions, outcome, streamLog, mq, calls>>
obsVars == <<emitted, observing, addedIds, removedIds, lastInfoActive, deactivations,
             observed>>
fanVars == <<subscribers, subCount, delivered, stack, notices, audience, subscribed>>
vars == <<sessVars, lastModifiedTime, callVars, pipeVars, loadVars, obsVars, fanVars>>

Callers == 1..MaxCalls

\* ----------------------------------------------- session.ts: aggregates
\* variant of updateUsage that adds the report to the previous total
updateUsageAccumulates(usage, previous) ==
    UsageSummary(previous.totalTokens + SumSeq(usage), previous.totalCost,
                 previous.contextWindow)

\* updateUsage: the token total of this report replaces the previous one
updateUsage(usage, previous) ==
    UsageSummary(SumSeq(usage), previous.totalCost, previous.contextWindow)

\* variant of handleResultMessage that keeps the previous cost
handleResultMessageKeepsCost(message, usage, modelName) ==
    UsageSummary(usage.totalTokens, usage.totalCost, usage.contextWindow)

\* handleResultMessage: cost from the fragment; context window from the
\* fragment's modelUsage entry of the current model, else unchanged
handleResultMessage(message, usage, modelName) ==
    LET hits == {e \in message.modelUsage : e[1] = modelName}
        contextWindow == IF hits # {} THEN (CHOOSE e \in hits : TRUE)[2]
                         ELSE usage.contextWindow
    IN UsageSummary(usage.totalTokens, message.total_cost_usd[1], contextWindow)

usage_updated(sessionId, usage) ==
    Event("usage_updated", sessionId, 0, 0, NoResult, 0, FALSE, usage)

\* processMessage: [usageData, currentMainLoopModel, events]; every
\* assignment to usageData notifies usage_updated (the setter, 167-175)
processMessage(message, sessionId, usage, modelName) ==
    IF message.type = "assistant"
    THEN IF message.usage # <<>>
         THEN [usageData |-> updateUsage(message.usage, usage),
               currentMainLoopModel |-> modelName,
               events |-> <<usage_updated(sessionId, updateUsage(message.usage, usage))>>]
         ELSE [usageData |-> usage, currentMainLoopModel |-> modelName, events |-> <<>>]
    ELSE IF message.type = "system" /\ message.subtype = "init"
    THEN [usageData |-> usage,
          currentMainLoopModel |-> IF message.model # "" THEN message.model ELSE modelName,
          events |-> <<>>]
    ELSE IF message.type = "result" /\ message.total_cost_usd # <<>>
    THEN [usageData |-> handleResultMessage(message, usage, modelName),
          currentMainLoopModel |-> modelName,
          events |-> <<usage_updated(sessionId, handleResultMessage(message, usage, modelName))>>]
    ELSE [usageData |-> usage, currentMainLoopModel |-> modelName, events |-> <<>>]

\* ------------------------------------- session.ts: todos and tool inventory
\* a TodoItem (types.ts): content and status
TodoItem(content, status) == [content |-> content, status |-> status]

areTodosEqual(left, right) ==
    /\ Len(left) = Len(right)
    /\ \A index \in 1..Len(left) :
          /\ left[index].content = right[index].content
          /\ left[index].status = right[index].status

areStringArraysEqual(left, right) ==
    /\ Len(left) = Len(right)
    /\ \A index \in 1..Len(left) : left[index] = right[index]

todos_updated(sessionId, list) ==
    [type |-> "todos_updated", sessionId |-> sessionId, todos |-> list]
tools_updated(sessionId, list) ==
    [type |-> "tools_updated", sessionId |-> sessionId, tools |-> list]

\* the todo / tool fields of a Session and the notifications emitted so far
\* by the handler that is running
Aggregates(todoList, toolList, pendingTodos, pendingTools, events) ==
    [todos |-> todoList, tools |-> toolList,
     pendingTodosBroadcast |-> pendingTodos, pendingToolsBroadcast |-> pendingTools,
     events |-> events]

\* variant of updateTodosState that notifies at once even while isLoading
updateTodosStateAtOnce(list, a, loading, sessionId) ==
    [a EXCEPT !.todos = list,
              !.events = @ \o IF ~areTodosEqual(a.todos, list)
                              THEN <<todos_updated(sessionId, list)>> ELSE <<>>]

\* variant of updateTodosState that notifies whether or not the list changed
updateTodosStateUngated(list, a, loading, sessionId) ==
    [a EXCEPT !.todos = list,
              !.pendingTodosBroadcast = @ \/ loading,
              !.events = @ \o IF ~loading
                              THEN <<todos_updated(sessionId, list)>> ELSE <<>>]

\* updateTodosState (559-573): replace, then notify if changed, or latch
\* the notification while isLoading
updateTodosState(list, a, loading, sessionId) ==
    [a EXCEPT !.todos = list,
              !.pendingTodosBroadcast = @ \/ (~areTodosEqual(a.todos, list) /\ loading),
              !.events = @ \o IF ~areTodosEqual(a.todos, list) /\ ~loading
                              THEN <<todos_updated(sessionId, list)>> ELSE <<>>]

\* updateToolsState (575-589)
updateToolsState(list, a, loading, sessionId) ==
    [a EXCEPT !.tools = list,
              !.pendingToolsBroadcast = @ \/ (~areStringArraysEqual(a.tools, list) /\ loading),
              !.events = @ \o IF ~areStringArraysEqual(a.tools, list) /\ ~loading
                              THEN <<tools_updated(sessionId, list)>> ELSE <<>>]

\* the loop of handleAssistantMessage over the content blocks (535-551),
\* from block k on; a TodoWrite block's input is its todos array
RECURSIVE TodoWrites(_, _, _, _, _)
TodoWrites(content, k, a, loading, sessionId) ==
    IF k > Len(content) THEN a
    ELSE TodoWrites(content, k + 1,
                    IF content[k].type = "tool_use" /\ content[k].name = "TodoWrite"
                    THEN updateTodosState(content[k].input, a, loading, sessionId)
                    ELSE a,
                    loading, sessionId)

\* what processMessage (506-525) does to todos and tools
processMessageState(message, a, loading, sessionId) ==
    IF message.type = "assistant"
    THEN TodoWrites(message.content, 1, a, loading, sessionId)
    ELSE IF message.type = "system" /\ message.subtype = "init" /\ message.tools # <<>>
    THEN updateToolsState(message.tools[1], a, loading, sessionId)
    ELSE a

\* flushPendingStateUpdates (591-601)
flushPendingStateUpdates(a, sessionId) ==
    [a EXCEPT !.pendingTodosBroadcast = FALSE,
              !.pendingToolsBroadcast = FALSE,
              !.events = @ \o (IF a.pendingTodosBroadcast
                               THEN <<todos_updated(sessionId, a.todos)>> ELSE <<>>)
                           \o (IF a.pendingToolsBroadcast
                               THEN <<tools_updated(sessionId, a.tools)>> ELSE <<>>)]

\* ------------------------------------ session.ts: notifications of a diff
session_info(sessionId, count, active) ==
    Event("session_info", sessionId, 0, 0, NoResult, count, active, ZeroUsage)

\* variant of ToolResultEvents without the test of nextMap (448-451)
ToolResultEventsForAll(updates, nextMap, sessionId) ==
    [j \in 1..Len(updates) |->
        Event("tool_result_updated", sessionId, updates[j].id, updates[j].toolUseId,
              updates[j].toolResult, 0, FALSE, ZeroUsage)]

\* the tool_result_updated loop: one event per toolResultUpdate whose turn
\* id is still a key of the next snapshot's map
RECURSIVE ToolResultEvents(_, _, _)
ToolResultEvents(updates, nextMap, sessionId) ==
    IF updates = <<>> THEN <<>>
    ELSE (IF MapHas(nextMap, Head(updates).id)
          THEN <<Event("tool_result_updated", sessionId, Head(updates).id,
                       Head(updates).toolUseId, Head(updates).toolResult,
                       0, FALSE, ZeroUsage)>>
          ELSE <<>>)
         \o ToolResultEvents(Tail(updates), nextMap, sessionId)

\* variant of DiffEvents that announces the added turns before the removed
DiffEventsAddedFirst(diff, nextMap, nextMessages, appendResult, sessionId, active) ==
    [j \in 1..Len(diff.added) |->
         Event("message_added", sessionId, diff.added[j].id, 0, NoResult, 0, FALSE, ZeroUsage)]
    \o [j \in 1..Len(diff.removed) |->
         Event("message_removed", sessionId, diff.removed[j], 0, NoResult, 0, FALSE, ZeroUsage)]
    \o [j \in 1..Len(diff.updated) |->
         Event("message_updated", sessionId, diff.updated[j].id, 0, NoResult, 0, FALSE, ZeroUsage)]
    \o ToolResultEvents(appendResult.toolResultUpdates, nextMap, sessionId)
    \o <<session_info(sessionId, Len(nextMessages), active)>>

\* applyMessageUpdates: the notifications it emits, in order: removed,
\* added, updated, tool_result_updated, session_info
DiffEvents(diff, nextMap, nextMessages, appendResult, sessionId, active) ==
    [j \in 1..Len(diff.removed) |->
         Event("message_removed", sessionId, diff.removed[j], 0, NoResult, 0, FALSE, ZeroUsage)]
    \o [j \in 1..Len(diff.added) |->
         Event("message_added", sessionId, diff.added[j].id, 0, NoResult, 0, FALSE, ZeroUsage)]
    \o [j \in 1..Len(diff.updated) |->
         Event("message_updated", sessionId, diff.updated[j].id, 0, NoResult, 0, FALSE, ZeroUsage)]
    \o ToolResultEvents(appendResult.toolResultUpdates, nextMap, sessionId)
    \o <<session_info(sessionId, Len(nextMessages), active)>>

applyMessageUpdates(previousMessages, nextMessages, appendResult, sessionId, active) ==
    DiffEvents(diffMessages(previousMessages, nextMessages, appendResult.updatedMessages),
               buildMessageMap(nextMessages), nextMessages, appendResult, sessionId, active)

\* the first reference not used by a turn of the list and not below ref
NextFree(list, ref) == SetMax({ref} \cup {list[j].ref + 1 : j \in 1..Len(list)})

\* variant of Coalesced that assigns the fragment's session_id without the
\* fallback to the current id (399)
CoalescedTakesFragmentId(message, s, agg, state, appendResult, coalescedMessages) ==
    [messages |-> coalescedMessages,
     todos |-> state.todos, tools |-> state.tools,
     pendingTodosBroadcast |-> state.pendingTodosBroadcast,
     pendingToolsBroadcast |-> state.pendingToolsBroadcast,
     messageCount |-> Len(coalescedMessages),
     usageData |-> agg.usageData,
     currentMainLoopModel |-> agg.currentMainLoopModel,
     claudeSessionId |-> IF message.session_id # "" THEN message.session_id
                         ELSE NULL,
     busy |-> IF message.type = "system" /\ message.subtype = "init" THEN TRUE
              ELSE IF message.type = "system" THEN s.busy
              ELSE IF message.type = "result" THEN FALSE
              ELSE s.busy,
     nextRef |-> NextFree(coalescedMessages, NextFree(appendResult.messages, s.nextRef)),
     lastModifiedTime |-> IF message.timestamp # 0 THEN message.timestamp ELSE s.now,
     events |-> state.events \o agg.events
                \o applyMessageUpdates(s.messages, coalescedMessages, appendResult,
                                       s.claudeSessionId, s.queryPromise # 0)]

\* processIncomingMessage from 391 on: coalesce (392), then diff + notify
\* (393), session id (399), busy (401-409)
Coalesced(message, s, agg, state, appendResult, coalescedMessages) ==
    [messages |-> coalescedMessages,
     todos |-> state.todos, tools |-> state.tools,
     pendingTodosBroadcast |-> state.pendingTodosBroadcast,
     pendingToolsBroadcast |-> state.pendingToolsBroadcast,
     messageCount |-> Len(coalescedMessages),
     usageData |-> agg.usageData,
     currentMainLoopModel |-> agg.currentMainLoopModel,
     claudeSessionId |-> IF message.session_id # "" THEN message.session_id
                         ELSE s.claudeSessionId,
     busy |-> IF message.type = "system" /\ message.subtype = "init" THEN TRUE
              ELSE IF message.type = "system" THEN s.busy
              ELSE IF message.type = "result" THEN FALSE
              ELSE s.busy,
     nextRef |-> NextFree(coalescedMessages, NextFree(appendResult.messages, s.nextRef)),
     lastModifiedTime |-> IF message.timestamp # 0 THEN message.timestamp ELSE s.now,
     events |-> state.events \o agg.events
                \o applyMessageUpdates(s.messages, coalescedMessages, appendResult,
                                       s.claudeSessionId, s.queryPromise # 0)]

Rendered(message, s, agg, state, appendResult) ==
    Coalesced(message, s, agg, state, appendResult,
              coalesceReadMessages(appendResult.messages, s.nextRef))

\* processIncomingMessage (387-410) as a function of the session fields:
\* aggregates, render + link, coalesce, diff + notify, session id, busy
processIncomingMessage(message, s) ==
    Rendered(message, s,
             processMessage(message, s.claudeSessionId, s.usageData, s.currentMainLoopModel),
             processMessageState(message,
                                 Aggregates(s.todos, s.tools, s.pendingTodosBroadcast,
                                            s.pendingToolsBroadcast, <<>>),
                                 s.isLoading, s.claudeSessionId),
             appendRenderableMessage(s.messages, message, s.nextRef))

\* the session fields processIncomingMessage reads
Session ==
    [messages |-> messages, usageData |-> usageData,
     currentMainLoopModel |-> currentMainLoopModel,
     claudeSessionId |-> claudeSessionId, busy |-> busy,
     queryPromise |-> queryPromise, nextRef |-> nextRef,
     todos |-> todos, tools |-> tools,
     pendingTodosBroadcast |-> pendingTodosBroadcast,
     pendingToolsBroadcast |-> pendingToolsBroadcast, isLoading |-> isLoading,
     now |-> now]

\* ------------------------------------------------------------ observation
EventIds(events, type) ==
    LET OfType(e) == e.type = type
        sel == SelectSeq(events, OfType)
    IN [j \in 1..Len(sel) |-> sel[j].messageId]

\* the isActive flags of the session_info notifications among events
InfoFlags(events) ==
    LET IsInfo(e) == e.type = "session_info"
        sel == SelectSeq(events, IsInfo)
    IN [j \in 1..Len(sel) |-> sel[j].isActive]

\* number of active -> inactive steps in the flag list that starts at `last`
RECURSIVE Drops(_, _)
Drops(last, flags) ==
    IF flags = <<>> THEN 0
    ELSE (IF last /\ ~Head(flags) THEN 1 ELSE 0) + Drops(Head(flags), Tail(flags))

\* the list of ids a subscriber keeps from the notifications: message_added
\* appends, message_removed deletes by id, message_updated replaces in place
ApplyEvent(list, event) ==
    IF event.type = "message_added" THEN Append(list, event.messageId)
    ELSE IF event.type = "message_removed"
    THEN SelectSeq(list, LAMBDA id : id # event.messageId)
    ELSE list

RECURSIVE ReplayEvents(_, _)
ReplayEvents(list, events) ==
    IF events = <<>> THEN list
    ELSE ReplayEvents(ApplyEvent(list, Head(events)), Tail(events))

\* an observer of the notifications emitted by a handler
Observe(events) ==
    /\ emitted' = events
    /\ observing' = observing
    /\ IF observing
       THEN /\ addedIds' = addedIds \o EventIds(events, "message_added")
            /\ removedIds' = removedIds \o EventIds(events, "message_removed")
            /\ deactivations' = deactivations + Drops(lastInfoActive, InfoFlags(events))
            /\ lastInfoActive' = IF InfoFlags(events) = <<>> THEN lastInfoActive
                                 ELSE InfoFlags(events)[Len(InfoFlags(events))]
            /\ observed' = ReplayEvents(observed, events)
       ELSE UNCHANGED <<addedIds, removedIds, deactivations, lastInfoActive, observed>>

\* the Session takes the fields processIncomingMessage computed and the
\* subscribers get its notifications
Assign(r) ==
    /\ messages' = r.messages
    /\ messageCount' = r.messageCount
    /\ usageData' = r.usageData
    /\ currentMainLoopModel' = r.currentMainLoopModel
    /\ claudeSessionId' = r.claudeSessionId
    /\ busy' = r.busy
    /\ nextRef' = r.nextRef
    /\ todos' = r.todos
    /\ tools' = r.tools
    /\ pendingTodosBroadcast' = r.pendingTodosBroadcast
    /\ pendingToolsBroadcast' = r.pendingToolsBroadcast
    /\ summary' = summary
    /\ lastModifiedTime' = r.lastModifiedTime
    /\ Observe(r.events)

\* ------------------------------------------------------- promises, results
\* the promise of a send's async block (295-353): none (not created),
\* pending, fulfilled with {success, lastAssistantMessage, usage}, rejected
PromiseOf(state, lastAssistantMessage, usage) ==
    [state |-> state, lastAssistantMessage |-> lastAssistantMessage, usage |-> usage]
NoPromise == PromiseOf("none", 0, ZeroUsage)

\* what a send() call gave its caller: state none (not settled), resolved
\* (with the returned object) or rejected (send's promise rejected)
Outcome(state, success, err, count, lastAssistantMessage, usage) ==
    [state |-> state, success |-> success, error |-> err, messageCount |-> count,
     lastAssistantMessage |-> lastAssistantMessage, usage |-> usage]
NoOutcome == Outcome("none", FALSE, NULL, 0, 0, ZeroUsage)

\* what AutoContinueSession.send adds to the object it returns (519-523):
\* continued and newSession (a session id, 0 = the property is absent)
Continuation(continued, newSession) == [continued |-> continued, newSession |-> newSession]
NotContinued == Continuation(FALSE, 0)

\* the messages of the errors the Session records
CancelledByUser == "Operation cancelled by user"
TransportError == "transport error"
\* the message of the exception a subscriber's callback throws
CallbackError == "callback error"
LoadError == "load error"

\* the text of a prompt or of a text part: the messages of this model
\* carry one, non-blank, text
PromptText == "text"

\* extractLastMessageTimestamp (752-766), with the Date.now() that replaces
\* null (155-160): the timestamp of the last fragment that carries one
extractLastMessageTimestamp(history, clock) ==
    LET hits == {j \in 1..Len(history) : history[j].timestamp # 0}
    IN IF hits = {} THEN clock ELSE history[SetMax(hits)].timestamp

\* extractSummaryFromMessages (733-750): the text of the first text part
\* of a user turn, undefined when there is none
extractSummaryFromMessages(list) ==
    LET hits == {j \in 1..Len(list) :
                    /\ list[j].type = "user"
                    /\ \E k \in 1..Len(list[j].content) :
                           list[j].content[k].content.type = "text"}
    IN IF hits = {} THEN NULL ELSE PromptText

\* the last assistant turn of the history (334-335, 365-366): its object
\* reference, 0 = null
LastAssistant(list) ==
    LET hits == {j \in 1..Len(list) : list[j].type = "assistant"}
    IN IF hits = {} THEN 0 ELSE list[SetMax(hits)].ref

\* ------------------------------------------------------------------- Init
\* the options of an AutoContinueSession (cas-client.ts 467-476) and their
\* defaults: continue ?? false, maxTurns ?? 100
Options(continue, maxTurns) == [continue |-> continue, maxTurns |-> maxTurns]
DefaultOptions == Options(FALSE, 100)

\* a manager that has created the Session of the variables and nothing else
InitManager(o) ==
    /\ options = o /\ sessionsList = <<>> /\ timers = <<>>
    /\ continuations = [c \in Callers |-> NotContinued]

\* a freshly constructed Session (33-58) that nothing has called yet
InitSession ==
    /\ messages = <<>> /\ messageCount = 0
    /\ claudeSessionId = NULL /\ error = NULL
    /\ busy = FALSE /\ isLoading = FALSE
    /\ queryPromise = 0 /\ loadingPromise = NULL /\ cancellationToken = 0
    /\ usageData = ZeroUsage /\ currentMainLoopModel = "" /\ summary = NULL
    /\ now = 1 /\ lastModifiedTime = now
    /\ nextRef = 1 /\ tokenCancelled = [c \in Callers |-> FALSE]
    /\ pc = [c \in Callers |-> "idle"]
    /\ reactions = [c \in Callers |-> <<>>]
    /\ promise = [c \in Callers |-> NoPromise]
    /\ outcome = [c \in Callers |-> NoOutcome]
    /\ streamLog = [c \in Callers |-> <<>>]
    /\ mq = <<>>
    /\ calls = 0 /\ applied = 0 /\ fed = <<>>
    /\ todos = <<>> /\ tools = <<>>
    /\ pendingTodosBroadcast = FALSE /\ pendingToolsBroadcast = FALSE
    /\ fetches = 0 /\ returned = <<>> /\ loadState = "none" /\ fetched = <<>>
    /\ emitted = <<>> /\ addedIds = <<>> /\ removedIds = <<>> /\ observed = <<>>
    /\ lastInfoActive = FALSE /\ deactivations = 0
    /\ subscribers = {} /\ subCount = 0 /\ delivered = <<>> /\ subscribed = <<>>
    /\ stack = <<>> /\ notices = 0 /\ audience = <<>>

\* a value passed as client: its kind and, for an object, the names of its
\* properties that are functions
ClientValue(kind, methods) == [kind |-> kind, methods |-> methods]

\* new ClaudeAgentSDKClient(), the default value of the parameter
DefaultClient == ClientValue("object", {"queryStream", "getSession"})

ClientArguments ==
    {ClientValue("null", {}), ClientValue("undefined", {}), ClientValue("string", {})}
    \cup {ClientValue("object", methods) : methods \in SUBSET {"queryStream", "getSession"}}

\* the checks of the constructor (61-71) on the client it received
ClientError(client) ==
    IF client.kind # "object" THEN "Session requires a valid client instance"
    ELSE IF "queryStream" \notin client.methods THEN "Client must implement queryStream method"
    ELSE IF "getSession" \notin client.methods THEN "Client must implement getSession method"
    ELSE ""

\* constructor(client = new ClaudeAgentSDKClient()) (60-75): an undefined
\* argument is replaced by the default value before the checks
Constructor(argument, client) ==
    [argument |-> argument, error |-> ClientError(client),
     client |-> IF ClientError(client) = "" THEN client ELSE NULL]

constructor(argument) ==
    Constructor(argument, IF argument.kind = "undefined" THEN DefaultClient ELSE argument)

\* Spec: no tallying subscriber; SpecPipe and SpecSend: one is attached
Init ==
    /\ InitSession /\ observing = FALSE /\ constructed = constructor(DefaultClient)
    /\ InitManager(DefaultOptions)
InitObserved ==
    /\ InitSession /\ observing = TRUE /\ constructed = constructor(DefaultClient)
    /\ InitManager(DefaultOptions)

\* --------------------------------------------------------------- SpecPipe
\* the fragments a caller of processIncomingMessage passes in SpecPipe
AssistantText == Fragment("assistant", "", 0, <<TextBlock>>)
AssistantRead(id, file) == Fragment("assistant", "", 0, <<ToolUseBlock(id, "Read", file)>>)
UserResult(id, is_error, rid) == Fragment("user", "", 0, <<ToolResultBlock(id, is_error, rid)>>)

PipeFragments ==
    { AssistantRead(1, "a.txt"),
      AssistantRead(2, "b.txt"),
      \* one turn invoking the same id twice
      Fragment("assistant", "", 0,
               <<ToolUseBlock(1, "Read", "a.txt"), ToolUseBlock(1, "Read", "b.txt")>>),
      \* one turn with an invocation of Read followed by a text
      Fragment("assistant", "", 0, <<ToolUseBlock(2, "Read", "b.txt"), TextBlock>>),
      [AssistantText EXCEPT !.usage = <<1, 1, 1, 1>>],
      \* fragments that carry a uuid (the same one)
      [AssistantText EXCEPT !.uuid = 7],
      [UserResult(1, FALSE, 1) EXCEPT !.uuid = 7],
      UserResult(1, FALSE, 1),
      UserResult(1, TRUE, 2),
      Fragment("user", "", 0, <<ToolResultBlock(1, FALSE, 1), ToolResultBlock(2, FALSE, 3)>>),
      [Fragment("result", "success", 0, <<>>) EXCEPT !.total_cost_usd = <<5>>,
                                                     !.session_id = "s1"],
      [Fragment("system", "init", 0, <<>>) EXCEPT !.model = "m1"],
      Fragment("stream_event", "", 0, <<>>) }

\* session.processIncomingMessage(message) called on the Session
ProcessIncomingMessage(message) ==
    /\ applied' = applied + 1
    /\ fed' = Append(fed, message)
    /\ UNCHANGED <<constructed, autoVars, now>>
    /\ Assign(processIncomingMessage(message, Session))
    /\ UNCHANGED <<error, isLoading, queryPromise, loadingPromise,
                   cancellationToken, tokenCancelled, callVars, loadVars, fanVars>>

ApplyFragment(message) == applied < MaxPipeFrags /\ ProcessIncomingMessage(message)

NextPipe == \E message \in PipeFragments : ApplyFragment(message)

SpecPipe == InitObserved /\ [][NextPipe]_vars

\* ------------------------------------------------------------------- Spec
\* the fragments the transport may yield on a send's stream
AssistantTextFragment == [AssistantText EXCEPT !.usage = <<1, 1, 1, 1>>, !.uuid = 7]
ResultFragment ==
    [Fragment("result", "success", 0, <<>>) EXCEPT !.total_cost_usd = <<5>>,
                                                   !.session_id = "s1"]
InitFragment == [Fragment("system", "init", 0, <<>>) EXCEPT !.model = "m1"]

StreamFragments == {AssistantTextFragment, ResultFragment, InitFragment}

\* the histories getSession may return for a non-empty conversation
LoadHistories ==
    { <<[AssistantText EXCEPT !.usage = <<2, 0, 0, 2>>],
        [Fragment("result", "success", 0, <<>>) EXCEPT !.total_cost_usd = <<3>>]>>,
      <<AssistantRead(1, "a.txt"), AssistantRead(2, "b.txt"),
        Fragment("user", "", 0, <<ToolResultBlock(1, FALSE, 1), ToolResultBlock(2, FALSE, 3)>>)>> }

\* fragments yielded so far over all streams
Yielded == SumSeq([c \in Callers |-> Len(streamLog[c])])

\* a macrotask (a call from outside, a transport or timer callback) starts
\* only when the microtask queue has drained
Macrotask == mq = <<>>

\* send() from 279 on, with the coalesced snapshot of 278
UserTurnApplied(c, appendResult, coalescedMessages) ==
    /\ messages' = coalescedMessages
    /\ messageCount' = Len(coalescedMessages)
    /\ nextRef' = NextFree(coalescedMessages, NextFree(appendResult.messages, nextRef))
    /\ Observe(applyMessageUpdates(messages, coalescedMessages, appendResult,
                                   claudeSessionId, queryPromise # 0))
    /\ summary' = IF summary = NULL THEN PromptText ELSE summary
    /\ lastModifiedTime' = now
    /\ busy' = TRUE
    /\ error' = NULL
    /\ cancellationToken' = c
    /\ tokenCancelled' = [tokenCancelled EXCEPT ![c] = FALSE]
    /\ queryPromise' = c
    /\ promise' = [promise EXCEPT ![c] = PromiseOf("pending", 0, ZeroUsage)]
    /\ reactions' = [reactions EXCEPT ![c] = <<c>>]
    /\ pc' = [pc EXCEPT ![c] = "streaming"]
    /\ UNCHANGED <<claudeSessionId, isLoading, loadingPromise, usageData,
                   currentMainLoopModel, outcome, streamLog, todos, tools,
                   pendingTodosBroadcast, pendingToolsBroadcast>>

\* send() from 278 on, with the result of appendRenderableMessage (277)
UserTurnAppended(c, appendResult) ==
    UserTurnApplied(c, appendResult, coalesceReadMessages(appendResult.messages, nextRef))

\* send(), 254-353 and 355-356: from building the user message to the first
\* suspension (the stream loop awaits the first fragment, send awaits its
\* own queryPromise). No check of queryPromise is made here.
SendBody(c) ==
    UserTurnAppended(c, appendRenderableMessage(messages, Fragment("user", "", 0, <<TextBlock>>),
                                                nextRef))

\* callers are numbered in the order of their calls
NextCaller(c) == pc[c] = "idle" /\ \A d \in Callers : d < c => pc[d] # "idle"

\* send() called while queryPromise is null (249 false)
SendNow(c) ==
    /\ Macrotask /\ NextCaller(c) /\ calls < MaxCalls
    /\ calls' = calls + 1
    /\ queryPromise = 0
    /\ SendBody(c)
    /\ UNCHANGED <<mq, pipeVars, loadVars, fanVars>>

\* send() called while queryPromise is set: await this.queryPromise (251)
SendWait(c) ==
    /\ Macrotask /\ NextCaller(c) /\ calls < MaxCalls
    /\ calls' = calls + 1
    /\ queryPromise # 0
    /\ pc' = [pc EXCEPT ![c] = "waiting"]
    /\ reactions' = [reactions EXCEPT ![queryPromise] = Append(@, c)]
    /\ Observe(<<>>)
    /\ UNCHANGED <<sessVars, lastModifiedTime, promise, outcome, streamLog, mq, pipeVars, loadVars, fanVars>>

\* the await of 251 resumes after the awaited promise was fulfilled: send
\* goes on at 254
WaiterProceeds(c) ==
    /\ mq # <<>> /\ Head(mq).who = c /\ Head(mq).on # c
    /\ promise[Head(mq).on].state = "fulfilled"
    /\ SendBody(c)
    /\ mq' = Tail(mq)
    /\ UNCHANGED <<calls, pipeVars, loadVars, fanVars>>

\* the await of 251 throws because the awaited promise was rejected: it is
\* outside every try, so send's own promise rejects
WaiterRejects(c) ==
    /\ mq # <<>> /\ Head(mq).who = c /\ Head(mq).on # c
    /\ promise[Head(mq).on].state = "rejected"
    /\ outcome' = [outcome EXCEPT ![c] =
                      Outcome("rejected", FALSE, TransportError, 0, 0, ZeroUsage)]
    /\ pc' = [pc EXCEPT ![c] = "done"]
    /\ mq' = Tail(mq)
    /\ Observe(<<>>)
    /\ UNCHANGED <<sessVars, lastModifiedTime, promise, reactions, streamLog, calls, pipeVars, loadVars, fanVars>>

\* variant of ResumeOwn without the catch of 364-374: the failure of the
\* async block leaves send
ResumeOwnRethrows(c) ==
    /\ mq # <<>> /\ Head(mq).who = c /\ Head(mq).on = c
    /\ outcome' = [outcome EXCEPT ![c] =
          IF promise[c].state = "fulfilled"
          THEN Outcome("resolved", TRUE, NULL, messageCount,
                       promise[c].lastAssistantMessage, promise[c].usage)
          ELSE Outcome("rejected", FALSE, error, 0, 0, ZeroUsage)]
    /\ lastModifiedTime' = IF promise[c].state = "fulfilled" THEN now ELSE lastModifiedTime
    /\ pc' = [pc EXCEPT ![c] = "done"]
    /\ mq' = Tail(mq)
    /\ Observe(<<>>)
    /\ UNCHANGED <<sessVars, promise, reactions, streamLog, calls, pipeVars, loadVars, fanVars>>

\* the await of 356 resumes: 357-363 after success, 364-373 after failure
ResumeOwn(c) ==
    /\ mq # <<>> /\ Head(mq).who = c /\ Head(mq).on = c
    /\ outcome' = [outcome EXCEPT ![c] =
          IF promise[c].state = "fulfilled"
          THEN Outcome("resolved", TRUE, NULL, messageCount,
                       promise[c].lastAssistantMessage, promise[c].usage)
          ELSE Outcome("resolved", FALSE, error, 0, LastAssistant(messages), usageData)]
    /\ lastModifiedTime' = IF promise[c].state = "fulfilled" THEN now ELSE lastModifiedTime
    /\ pc' = [pc EXCEPT ![c] = "done"]
    /\ mq' = Tail(mq)
    /\ Observe(<<>>)
    /\ UNCHANGED <<sessVars, promise, reactions, streamLog, calls, pipeVars, loadVars, fanVars>>

\* variant of Finally that does not clear busy (350 left out)
FinallyKeepsBusy(c, p) ==
    /\ queryPromise' = 0
    /\ cancellationToken' = 0
    /\ busy' = busy
    /\ Observe(<<session_info(claudeSessionId, messageCount, FALSE)>>)
    /\ promise' = [promise EXCEPT ![c] = p]
    /\ mq' = [j \in 1..Len(reactions[c]) |-> [who |-> reactions[c][j], on |-> c]]
    /\ reactions' = [reactions EXCEPT ![c] = <<>>]
    /\ pc' = [pc EXCEPT ![c] = "returning"]

\* the finally block (347-352), after which the async block's promise
\* settles as p and the reactions registered on it are queued in order
Finally(c, p) ==
    /\ queryPromise' = 0
    /\ cancellationToken' = 0
    /\ busy' = FALSE
    /\ Observe(<<session_info(claudeSessionId, messageCount, FALSE)>>)
    /\ promise' = [promise EXCEPT ![c] = p]
    /\ mq' = [j \in 1..Len(reactions[c]) |-> [who |-> reactions[c][j], on |-> c]]
    /\ reactions' = [reactions EXCEPT ![c] = <<>>]
    /\ pc' = [pc EXCEPT ![c] = "returning"]

\* the loop is left (break or end of stream): 331-341, then finally
ReturnResult(c) ==
    /\ Finally(c, PromiseOf("fulfilled", LastAssistant(messages), usageData))
    /\ UNCHANGED <<messages, messageCount, claudeSessionId, error, isLoading,
                   loadingPromise, usageData, currentMainLoopModel, nextRef,
                   tokenCancelled, outcome, calls, aggVars>>

\* the stream of caller c yields a fragment: the body of the for-await loop
\* (316-329). The cancellation check reads the Session's CURRENT token.
StreamStep(c, message) ==
    /\ Macrotask /\ pc[c] = "streaming"
    /\ streamLog' = [streamLog EXCEPT ![c] = Append(@, message)]
    /\ IF cancellationToken # 0 /\ tokenCancelled[cancellationToken]
       THEN ReturnResult(c)
       ELSE /\ Assign(processIncomingMessage(message, Session))
            /\ UNCHANGED <<error, isLoading, queryPromise, loadingPromise,
                           cancellationToken, tokenCancelled, pc, promise,
                           reactions, outcome, mq, calls>>
    /\ UNCHANGED <<pipeVars, loadVars, fanVars>>

StreamMessage(c, message) == Yielded < MaxFrags /\ StreamStep(c, message)

\* the stream of caller c ends
StreamEnd(c) ==
    /\ Macrotask /\ pc[c] = "streaming"
    /\ ReturnResult(c)
    /\ UNCHANGED <<streamLog, pipeVars, loadVars, fanVars>>

\* the transport throws: catch (342-346) records the error and rethrows,
\* then finally
StreamFail(c) ==
    /\ Macrotask /\ pc[c] = "streaming"
    /\ error' = TransportError
    /\ Finally(c, PromiseOf("rejected", 0, ZeroUsage))
    /\ UNCHANGED <<messages, messageCount, claudeSessionId, isLoading,
                   loadingPromise, usageData, currentMainLoopModel, nextRef,
                   tokenCancelled, outcome, calls, streamLog, aggVars, pipeVars,
                   loadVars, fanVars>>

\* the assignments of cancel() (83-90)
CancelFields ==
    /\ tokenCancelled' = IF cancellationToken # 0
                         THEN [tokenCancelled EXCEPT ![cancellationToken] = TRUE]
                         ELSE tokenCancelled
    /\ cancellationToken' = 0
    /\ busy' = FALSE
    /\ queryPromise' = 0
    /\ error' = CancelledByUser

\* cancel() (83-92)
Cancel ==
    /\ Macrotask /\ calls < MaxCalls
    /\ calls' = calls + 1
    /\ CancelFields
    /\ Observe(<<session_info(claudeSessionId, messageCount, FALSE)>>)
    /\ UNCHANGED <<messages, messageCount, claudeSessionId, isLoading, loadingPromise,
                   usageData, currentMainLoopModel, nextRef, pc, promise, reactions,
                   outcome, streamLog, mq, aggVars, pipeVars, loadVars, fanVars>>

\* variant of loadFromServer without the test of loadingPromise (183-185)
loadFromServerAgain(sessionId) ==
    /\ IF (IF sessionId # NULL THEN sessionId ELSE claudeSessionId) = NULL
       THEN /\ returned' = Append(returned, 0)
            /\ UNCHANGED <<claudeSessionId, isLoading, error, loadingPromise,
                           fetches, loadState, fetched>>
       ELSE /\ claudeSessionId' = IF sessionId # NULL THEN sessionId ELSE claudeSessionId
            /\ isLoading' = TRUE
            /\ error' = NULL
            /\ loadingPromise' = "loading"
            /\ fetches' = fetches + 1
            /\ returned' = Append(returned, fetches + 1)
            /\ loadState' = "pending"
            /\ UNCHANGED fetched
    /\ Observe(<<>>)
    /\ UNCHANGED <<messages, messageCount, busy, queryPromise, cancellationToken,
                   usageData, currentMainLoopModel, nextRef, tokenCancelled,
                   aggVars, pc, promise, reactions, outcome, streamLog, mq,
                   pipeVars, fanVars>>

\* loadFromServer(sessionId) up to the await of getSession (177-193);
\* sessionId NULL = no argument. The call returns undefined (178-181), the
\* promise of the running load (183-185) or the promise of a new load, whose
\* async block calls getSession
loadFromServer(sessionId) ==
    /\ IF (IF sessionId # NULL THEN sessionId ELSE claudeSessionId) = NULL
       THEN /\ returned' = Append(returned, 0)
            /\ UNCHANGED <<claudeSessionId, isLoading, error, loadingPromise,
                           fetches, loadState, fetched>>
       ELSE IF loadingPromise # NULL
       THEN /\ returned' = Append(returned, fetches)
            /\ UNCHANGED <<claudeSessionId, isLoading, error, loadingPromise,
                           fetches, loadState, fetched>>
       ELSE /\ claudeSessionId' = IF sessionId # NULL THEN sessionId ELSE claudeSessionId
            /\ isLoading' = TRUE
            /\ error' = NULL
            /\ loadingPromise' = "loading"
            /\ fetches' = fetches + 1
            /\ returned' = Append(returned, fetches + 1)
            /\ loadState' = "pending"
            /\ UNCHANGED fetched
    /\ Observe(<<>>)
    /\ UNCHANGED <<messages, messageCount, busy, queryPromise, cancellationToken,
                   usageData, currentMainLoopModel, nextRef, tokenCancelled,
                   aggVars, pc, promise, reactions, outcome, streamLog, mq,
                   pipeVars, fanVars>>

\* a call of loadFromServer from outside
LoadFromServer(sessionId) ==
    /\ Macrotask /\ calls < MaxCalls
    /\ calls' = calls + 1
    /\ loadFromServer(sessionId)

\* a call of resumeFrom (237-242): undefined without an id, else
\* loadFromServer(sessionId)
ResumeFrom(sessionId) ==
    /\ Macrotask /\ calls < MaxCalls
    /\ calls' = calls + 1
    /\ IF sessionId = NULL
       THEN /\ returned' = Append(returned, 0)
            /\ Observe(<<>>)
            /\ UNCHANGED <<sessVars, lastModifiedTime, fetches, loadState, fetched, pc, promise, reactions,
                           outcome, streamLog, mq, pipeVars, fanVars>>
       ELSE loadFromServer(sessionId)

messages_loaded(sessionId, count) ==
    Event("messages_loaded", sessionId, 0, 0, NoResult, count, FALSE, ZeroUsage)

\* the todo / tool fields of the Session, no notification emitted yet
CurrentAggregates ==
    Aggregates(todos, tools, pendingTodosBroadcast, pendingToolsBroadcast, <<>>)

\* variant of ResetAggregates without updateToolsState([])
ResetTodosOnly(a) == updateTodosState(<<>>, a, isLoading, claudeSessionId)

\* updateTodosState([]) and updateToolsState([]) of a load (199-200, 214-215)
ResetAggregates(a) ==
    updateToolsState(<<>>, updateTodosState(<<>>, a, isLoading, claudeSessionId),
                     isLoading, claudeSessionId)

Emit(a, events) == [a EXCEPT !.events = @ \o events]

\* the finally block of a load (227-231), with the todo / tool fields and the
\* notifications of the async block so far
LoadFinally(a) ==
    /\ isLoading' = FALSE
    /\ loadingPromise' = NULL
    /\ loadState' = "fulfilled"
    /\ todos' = a.todos
    /\ tools' = a.tools
    /\ pendingTodosBroadcast' = a.pendingTodosBroadcast
    /\ pendingToolsBroadcast' = a.pendingToolsBroadcast
    /\ Observe(a.events)
    /\ UNCHANGED <<fetches, returned>>

\* variant of LoadEmpty without the assignment of messageCount (196)
LoadEmptyKeepsCount ==
    /\ Macrotask /\ loadingPromise = "loading"
    /\ fetched' = <<>>
    /\ messages' = <<>>
    /\ messageCount' = messageCount
    /\ usageData' = ZeroUsage
    /\ summary' = NULL
    /\ lastModifiedTime' = now
    /\ busy' = FALSE
    /\ LoadFinally(flushPendingStateUpdates(
                       Emit(ResetAggregates(CurrentAggregates),
                            <<usage_updated(claudeSessionId, ZeroUsage),
                              messages_loaded(claudeSessionId, 0),
                              session_info(claudeSessionId, messageCount,
                                           queryPromise # 0)>>),
                       claudeSessionId))
    /\ UNCHANGED <<claudeSessionId, error, queryPromise, cancellationToken,
                   currentMainLoopModel, nextRef, tokenCancelled, callVars,
                   pipeVars, fanVars>>

\* getSession resolved with an empty history: 194-211, then finally
LoadEmpty ==
    /\ Macrotask /\ loadingPromise = "loading"
    /\ fetched' = <<>>
    /\ messages' = <<>>
    /\ messageCount' = 0
    /\ usageData' = ZeroUsage
    /\ summary' = NULL
    /\ lastModifiedTime' = now
    /\ busy' = FALSE
    /\ LoadFinally(flushPendingStateUpdates(
                       Emit(ResetAggregates(CurrentAggregates),
                            <<usage_updated(claudeSessionId, ZeroUsage),
                              messages_loaded(claudeSessionId, 0),
                              session_info(claudeSessionId, 0, queryPromise # 0)>>),
                       claudeSessionId))
    /\ UNCHANGED <<claudeSessionId, error, queryPromise, cancellationToken,
                   currentMainLoopModel, nextRef, tokenCancelled, callVars,
                   pipeVars, fanVars>>

\* the loop of setMessages (135-140) from history[k] on: aggregates first,
\* then render + link into the fresh list `rendered`
RECURSIVE Replay(_, _, _)
ReplayOne(history, k, st, agg, state, appendResult) ==
    Replay(history, k + 1,
           [usageData |-> agg.usageData,
            currentMainLoopModel |-> agg.currentMainLoopModel,
            rendered |-> appendResult.messages,
            ref |-> st.ref + 1,
            state |-> Emit(state, agg.events)])

Replay(history, k, st) ==
    IF k > Len(history) THEN st
    ELSE ReplayOne(history, k, st,
                   processMessage(history[k], claudeSessionId, st.usageData,
                                  st.currentMainLoopModel),
                   processMessageState(history[k], st.state, isLoading, claudeSessionId),
                   appendRenderableMessage(st.rendered, history[k], st.ref))

\* setMessages after the loop (142-160) and loadFromServer 221-222, then
\* finally: the coalesced history replaces the Session's
HistoryApplied(st, coalesced) ==
    /\ messages' = coalesced
    /\ messageCount' = Len(coalesced)
    /\ usageData' = st.usageData
    /\ currentMainLoopModel' = st.currentMainLoopModel
    /\ nextRef' = NextFree(coalesced, st.ref)
    /\ summary' = extractSummaryFromMessages(st.rendered)
    /\ busy' = FALSE
    /\ LoadFinally(flushPendingStateUpdates(
                       Emit(st.state,
                            <<messages_loaded(claudeSessionId, Len(coalesced)),
                              session_info(claudeSessionId, Len(coalesced),
                                           queryPromise # 0)>>),
                       claudeSessionId))

HistoryReplayed(st) == HistoryApplied(st, coalesceReadMessages(st.rendered, st.ref))

\* the state of setMessages before its loop, after 213-220
ReplayStart ==
    [usageData |-> ZeroUsage,
     currentMainLoopModel |-> currentMainLoopModel,
     rendered |-> <<>>, ref |-> nextRef,
     state |-> Emit(ResetAggregates(CurrentAggregates),
                    <<usage_updated(claudeSessionId, ZeroUsage)>>)]

\* getSession resolved with a non-empty history: 213-223 with setMessages
\* (132-161), then finally
LoadHistory(history) ==
    /\ Macrotask /\ loadingPromise = "loading"
    /\ fetched' = history
    /\ lastModifiedTime' = extractLastMessageTimestamp(history, now)
    /\ HistoryReplayed(Replay(history, 1, ReplayStart))
    /\ UNCHANGED <<claudeSessionId, error, queryPromise, cancellationToken,
                   tokenCancelled, callVars, pipeVars, fanVars>>

\* variant of LoadFail in which the failed load also drops the history
LoadFailDropsHistory ==
    /\ Macrotask /\ loadingPromise = "loading"
    /\ error' = LoadError
    /\ messages' = <<>>
    /\ messageCount' = 0
    /\ UNCHANGED <<fetched, summary, lastModifiedTime>>
    /\ LoadFinally(flushPendingStateUpdates(CurrentAggregates, claudeSessionId))
    /\ UNCHANGED <<claudeSessionId, busy, queryPromise,
                   cancellationToken, usageData, currentMainLoopModel, nextRef,
                   tokenCancelled, callVars, pipeVars, fanVars>>

\* getSession rejected: catch (224-226), then finally
LoadFail ==
    /\ Macrotask /\ loadingPromise = "loading"
    /\ error' = LoadError
    /\ LoadFinally(flushPendingStateUpdates(CurrentAggregates, claudeSessionId))
    /\ UNCHANGED <<messages, messageCount, claudeSessionId, busy, queryPromise,
                   cancellationToken, usageData, currentMainLoopModel, nextRef,
                   tokenCancelled, fetched, summary, lastModifiedTime, callVars,
                   pipeVars, fanVars>>

Next ==
    \/ \E c \in Callers : SendNow(c)
    \/ \E c \in Callers : SendWait(c)
    \/ \E c \in Callers : WaiterProceeds(c)
    \/ \E c \in Callers : WaiterRejects(c)
    \/ \E c \in Callers : ResumeOwn(c)
    \/ \E c \in Callers : \E message \in StreamFragments : StreamMessage(c, message)
    \/ \E c \in Callers : StreamEnd(c)
    \/ \E c \in Callers : StreamFail(c)
    \/ Cancel
    \/ \E sessionId \in {NULL, "s2"} : LoadFromServer(sessionId)
    \/ LoadEmpty
    \/ \E history \in LoadHistories : LoadHistory(history)
    \/ LoadFail

Spec == Init /\ [][Next]_vars

\* ----------------------------------------------------------------- SpecNew
\* new Session(argument) for every kind of argument; a Session that was
\* constructed then runs as in Spec
InitNew ==
    /\ InitSession /\ observing = FALSE
    /\ \E argument \in ClientArguments : constructed = constructor(argument)
    /\ InitManager(DefaultOptions)

NextNew == constructed.error = "" /\ Next

SpecNew == InitNew /\ [][NextNew]_vars

\* --------------------------------------------------------------- SpecSend
\* one send() on a new Session, watched by the tallying subscriber
OneStreamMessage(message) == Yielded < MaxSendFrags /\ StreamStep(1, message)

NextSend ==
    \/ SendNow(1)
    \/ \E message \in StreamFragments : OneStreamMessage(message)
    \/ StreamEnd(1)
    \/ StreamFail(1)
    \/ ResumeOwn(1)

SpecSend == InitObserved /\ [][NextSend]_vars

\* --------------------------------------------------------------- SpecLoad
\* loads (loadFromServer / resumeFrom and the three ways getSession ends)
\* with live updates before, during and after them
TodoWriteFragment(list) ==
    Fragment("assistant", "", 0, <<Block("tool_use", 9, "TodoWrite", list, FALSE, 0, 0)>>)

TodosA == <<TodoItem("t1", "pending")>>
TodosB == <<TodoItem("t1", "completed")>>

ToolsFragment == [Fragment("system", "init", 0, <<>>) EXCEPT !.tools = <<(<<"Read", "Bash">>)>>]

\* the fragments a fetched history is made of
HistoryFragments ==
    {TodoWriteFragment(TodosA),
     [TodoWriteFragment(TodosB) EXCEPT !.usage = <<1, 1, 1, 1>>],
     ToolsFragment}

\* the histories getSession resolves with: every list of 1..MaxHistory
\* history fragments
Histories ==
    UNION {[1..n -> HistoryFragments] : n \in 1..MaxHistory}

\* the fragments of live updates
LiveFragments == {TodoWriteFragment(TodosA), ToolsFragment}

LoadIds == {NULL, "s2", "s3"}

LiveUpdate(message) == applied < MaxLive /\ ApplyFragment(message)

NextLoad ==
    \/ \E sessionId \in LoadIds : LoadFromServer(sessionId)
    \/ \E sessionId \in LoadIds : ResumeFrom(sessionId)
    \/ LoadEmpty
    \/ \E history \in Histories : LoadHistory(history)
    \/ LoadFail
    \/ \E message \in LiveFragments : LiveUpdate(message)

SpecLoad == Init /\ [][NextLoad]_vars

\* ================================================================= claims

\* the tool_result blocks an incoming user fragment may carry
ResultBlocks ==
    {ToolResultBlock(id, is_error, rid) : id \in {1, 2}, is_error \in BOOLEAN, rid \in {8, 9}}

\* positions <<turn, part>> of all parts of a list
AllParts(list) ==
    UNION {{<<i, k>> : k \in 1..Len(list[i].content)} : i \in 1..Len(list)}

\* positions of the invocation parts with this id in assistant turns
InvocationParts(list, toolUseId) ==
    {p \in AllParts(list) :
        /\ list[p[1]].type = "assistant"
        /\ list[p[1]].content[p[2]].content.type = "tool_use"
        /\ list[p[1]].content[p[2]].content.id = toolUseId}

Slot(list, p) == list[p[1]].content[p[2]].toolResult

\* the positions of S that lie in the most recent turn holding one
MostRecent(S) == {p \in S : \A q \in S : q[1] <= p[1]}

\* C6: for every history and every incoming tool-result fragment for id X: if
\* some invocation part with id X has no result yet, the result is attached
\* to such a part (in the most recent turn that has one) and no part that
\* already carried a result is changed; only when every invocation part with
\* id X carries a result is the most recent one's result overwritten.
LinkerAttachesToPending ==
    \A block \in ResultBlocks :
        LET after == appendRenderableMessage(
                         messages, Fragment("user", "", 0, <<block>>), nextRef).messages
            parts == InvocationParts(messages, block.id)
            pending == {p \in parts : Slot(messages, p) = NoResult}
            targets == IF pending # {} THEN MostRecent(pending) ELSE MostRecent(parts)
        IN IF parts = {}
           THEN \A p \in AllParts(messages) : Slot(after, p) = Slot(messages, p)
           ELSE \E t \in targets :
                   /\ Slot(after, t) = block
                   /\ \A p \in AllParts(messages) \ {t} : Slot(after, p) = Slot(messages, p)

\* C7: conservation: the number of message_removed events plus the turn
\* count equals the number of message_added events plus the initial turn
\* count (0: the Session starts empty).
Conservation ==
    Len(removedIds) + messageCount = Len(addedIds) + 0

\* ---------------------------------------------------------------- SpecFan
\* subscribe / unsubscribe / noticeSubscribers, with callbacks that call
\* back into the Session while a fan-out is running.  A notification is
\* named by its emission number 1, 2, ...; 0 names the session_info that
\* subscribe() hands to the new callback directly.
SetMin(S) == CHOOSE x \in S : \A y \in S : x <= y

\* the entries a running Map iterator has not passed: live keys inserted
\* after the entry it visited last (127)
Unvisited(frame) == {s \in subscribers : s > frame.pos}

Top == stack[Len(stack)]

\* noticeSubscribers(message) is entered (126-127): the iterator is created
StartFanOut ==
    /\ notices' = notices + 1
    /\ audience' = Append(audience, subscribers)
    /\ stack' = Append(stack, [ev |-> notices + 1, pos |-> 0])

\* the loop of the running fan-out calls the next callback (127-128): the
\* iterator advances to key s, whose callback receives the notification
CallNext(s) ==
    /\ stack # <<>> /\ Unvisited(Top) # {}
    /\ s = SetMin(Unvisited(Top))

Called(s) == Append(delivered, <<Top.ev, s>>)

Advance(s) == [stack EXCEPT ![Len(stack)].pos = s]

\* the values passed to subscribe(): a function that returns, a function
\* that throws when called, and values that are not functions
Callbacks == {"returns", "throws", "null", "undefined", "string", "object"}
Callable(callback) == callback \in {"returns", "throws"}

NoError == "none"
NotAFunction == "Subscription callback must be a function"
CallbackFailed == "Subscription callback failed"

\* the session_info subscribe() hands to the new callback (104-112)
InitialInfo == session_info(claudeSessionId, messageCount, queryPromise # 0)

\* variant of Subscribe that keeps the subscription of a callback that threw
SubscribeKeepsFailed(callback) ==
    /\ stack = <<>> /\ Len(subscribed) < MaxSubs
    /\ IF ~Callable(callback)
       THEN /\ subscribed' = Append(subscribed, [sub |-> 0, error |-> NotAFunction])
            /\ UNCHANGED <<subCount, delivered, subscribers>>
       ELSE /\ subCount < MaxSubs
            /\ subCount' = subCount + 1
            /\ delivered' = Append(delivered, <<0, subCount + 1>>)
            /\ subscribers' = subscribers \cup {subCount + 1}
            /\ subscribed' = Append(subscribed,
                                   [sub |-> subCount + 1,
                                    error |-> IF callback = "throws" THEN CallbackFailed
                                              ELSE NoError])
    /\ UNCHANGED <<stack, notices, audience, sessVars, lastModifiedTime, callVars, pipeVars, loadVars, obsVars>>

\* subscribe(callback) called from outside a callback (95-124): a value
\* that is not a function is refused (96-98); a function is registered and
\* gets the session_info, and either returns or throws, in which case the
\* subscription is removed again and an error is thrown (114-118)
Subscribe(callback) ==
    /\ stack = <<>> /\ Len(subscribed) < MaxSubs
    /\ IF ~Callable(callback)
       THEN /\ subscribed' = Append(subscribed, [sub |-> 0, error |-> NotAFunction])
            /\ UNCHANGED <<subCount, delivered, subscribers>>
       ELSE /\ subCount < MaxSubs
            /\ subCount' = subCount + 1
            /\ delivered' = Append(delivered, <<0, subCount + 1>>)
            /\ subscribers' = IF callback = "throws" THEN subscribers
                              ELSE subscribers \cup {subCount + 1}
            /\ subscribed' = Append(subscribed,
                                   [sub |-> subCount + 1,
                                    error |-> IF callback = "throws" THEN CallbackFailed
                                              ELSE NoError])
    /\ UNCHANGED <<stack, notices, audience, sessVars, lastModifiedTime, callVars, pipeVars, loadVars, obsVars>>

\* the function subscribe() returned for subscription s is called from
\* outside a callback (121-123)
Unsubscribe(s) ==
    /\ stack = <<>> /\ s \in subscribers
    /\ subscribers' = subscribers \ {s}
    /\ UNCHANGED subscribed
    /\ UNCHANGED <<subCount, delivered, stack, notices, audience,
                   sessVars, lastModifiedTime, callVars, pipeVars, loadVars, obsVars>>

\* cancel() called from outside a callback (83-92): emitSessionInfo enters
\* noticeSubscribers
FanCancel ==
    /\ stack = <<>> /\ notices < MaxEvents
    /\ CancelFields
    /\ Observe(<<session_info(claudeSessionId, messageCount, FALSE)>>)
    /\ StartFanOut
    /\ UNCHANGED subscribed
    /\ UNCHANGED <<subscribers, subCount, delivered, messages, messageCount,
                   claudeSessionId, isLoading, loadingPromise, usageData,
                   currentMainLoopModel, nextRef, aggVars, callVars, pipeVars, loadVars>>

\* the next callback is called and just returns
DeliverQuiet ==
    /\ \E s \in subscribers :
          /\ CallNext(s)
          /\ stack' = Advance(s)
          /\ delivered' = Called(s)
    /\ UNCHANGED subscribed
    /\ UNCHANGED <<subscribers, subCount, notices, audience,
                   sessVars, lastModifiedTime, callVars, pipeVars, loadVars, obsVars>>

\* the next callback is called and calls the unsubscribe function of
\* subscription t (its own or another one's)
DeliverUnsubscribe(t) ==
    /\ t \in subscribers
    /\ \E s \in subscribers :
          /\ CallNext(s)
          /\ stack' = Advance(s)
          /\ delivered' = Called(s)
    /\ subscribers' = subscribers \ {t}
    /\ UNCHANGED subscribed
    /\ UNCHANGED <<subCount, notices, audience, sessVars, lastModifiedTime, callVars, pipeVars, loadVars, obsVars>>

\* the next callback is called and subscribes a further callback, which gets
\* its session_info inside subscribe()
DeliverSubscribe ==
    /\ subCount < MaxSubs
    /\ \E s \in subscribers :
          /\ CallNext(s)
          /\ stack' = Advance(s)
          /\ delivered' = Append(Called(s), <<0, subCount + 1>>)
    /\ subCount' = subCount + 1
    /\ subscribers' = subscribers \cup {subCount + 1}
    /\ UNCHANGED subscribed
    /\ UNCHANGED <<notices, audience, sessVars, lastModifiedTime, callVars, pipeVars, loadVars, obsVars>>

\* the next callback is called and calls cancel(): emitSessionInfo enters
\* noticeSubscribers again, inside the running loop
DeliverCancel ==
    /\ notices < MaxEvents
    /\ \E s \in subscribers :
          /\ CallNext(s)
          /\ stack' = Append(Advance(s), [ev |-> notices + 1, pos |-> 0])
          /\ delivered' = Called(s)
    /\ notices' = notices + 1
    /\ audience' = Append(audience, subscribers)
    /\ CancelFields
    /\ Observe(<<session_info(claudeSessionId, messageCount, FALSE)>>)
    /\ UNCHANGED subscribed
    /\ UNCHANGED <<subscribers, subCount, messages, messageCount,
                   claudeSessionId, isLoading, loadingPromise, usageData,
                   currentMainLoopModel, nextRef, aggVars, callVars, pipeVars, loadVars>>

\* the iterator of the running loop is exhausted: noticeSubscribers returns
FanReturn ==
    /\ stack # <<>> /\ Unvisited(Top) = {}
    /\ stack' = SubSeq(stack, 1, Len(stack) - 1)
    /\ UNCHANGED subscribed
    /\ UNCHANGED <<subscribers, subCount, delivered, notices, audience,
                   sessVars, lastModifiedTime, callVars, pipeVars, loadVars, obsVars>>

NextFan ==
    \/ \E callback \in Callbacks : Subscribe(callback)
    \/ \E s \in 1..MaxSubs : Unsubscribe(s)
    \/ FanCancel
    \/ DeliverQuiet
    \/ \E t \in 1..MaxSubs : DeliverUnsubscribe(t)
    \/ DeliverSubscribe
    \/ DeliverCancel
    \/ FanReturn

SpecFan == Init /\ [][NextFan]_vars

\* ---- claims about send, cancel and load (Spec, SpecSend)

\* send calls whose stream loop is open
Streaming == {c \in Callers : pc[c] = "streaming"}

\* C1: at every moment at most one send has appended its user turn and has
\* an open stream loop.
SendsNeverOverlap == Cardinality(Streaming) <= 1

\* C2: once cancel() was called while send c was in flight (it flipped c's
\* token), no further fragment of c's stream is applied: a step in which c's
\* stream yields a fragment appends no turn and changes no aggregate.
CancelStopsStream ==
    [][\A c \in Callers :
          (tokenCancelled[c] /\ Len(streamLog'[c]) > Len(streamLog[c]))
          => /\ messages' = messages
             /\ messageCount' = messageCount
             /\ usageData' = usageData
             /\ currentMainLoopModel' = currentMainLoopModel]_vars

\* C3: a send that waited for an earlier send is never abandoned: its promise
\* does not reject, whether the earlier send succeeded or failed.
WaitingSendNeverRejects ==
    \A c \in Callers : outcome[c].state # "rejected"

\* C4: when the transport fails during send c's own stream, the failure is
\* recorded as the Session's error and what was applied stays applied; send c
\* then resolves (does not reject) with success=false, the recorded error,
\* the most recent assistant turn and the current Usage.
TransportFailureReported ==
    [][\A c \in Callers :
          /\ (pc[c] = "streaming" /\ promise'[c].state = "rejected")
             => /\ error' = TransportError
                /\ messages' = messages
                /\ messageCount' = messageCount
                /\ usageData' = usageData
          /\ (promise[c].state = "rejected" /\ pc[c] = "returning" /\ pc'[c] # "returning")
             => /\ error = TransportError
                /\ outcome'[c] = Outcome("resolved", FALSE, TransportError, 0,
                                         LastAssistant(messages), usageData)
                /\ messages' = messages
                /\ usageData' = usageData]_vars

\* C4 witness: a send whose stream failed after a fragment was applied has
\* been answered
FailedSendAnswered ==
    \E c \in Callers :
        /\ promise[c].state = "rejected" /\ pc[c] = "done"
        /\ Len(streamLog[c]) > 0 /\ Len(messages) > 1
        /\ outcome[c].state = "resolved"

\* no stream loop is running and no load is in progress
Quiescent == Streaming = {} /\ loadingPromise = NULL

Count(list, x) == Cardinality({j \in 1..Len(list) : list[j] = x})

\* the one send of SpecSend finished after its stream yielded exactly one
\* assistant text turn and then one result turn
ScenarioDone ==
    /\ pc[1] = "done" /\ promise[1].state = "fulfilled"
    /\ streamLog[1] = <<AssistantTextFragment, ResultFragment>>

\* C8: empty history + one send whose stream yields one assistant text turn
\* and one result turn: exactly one message_added for the user turn, exactly
\* one for the assistant turn, exactly one change of session_info from
\* active to inactive, and the final Usage has the result turn's cost.
SingleSendScenario ==
    ScenarioDone =>
        /\ Len(messages) >= 2
        /\ messages[1].type = "user" /\ messages[2].type = "assistant"
        /\ Count(addedIds, messages[1].id) = 1
        /\ Count(addedIds, messages[2].id) = 1
        /\ deactivations = 1
        /\ usageData.totalCost = ResultFragment.total_cost_usd[1]
        /\ outcome[1].usage.totalCost = ResultFragment.total_cost_usd[1]

\* C8 witness: the scenario has run to its end and the caller has the result
ScenarioCompleted ==
    /\ ScenarioDone /\ outcome[1].state = "resolved" /\ outcome[1].success
    /\ Len(messages) = 3 /\ calls = 1

\* ---- claims about subscribers (SpecFan)

\* the notifications subscription s received, in the order of the calls
RECURSIVE ReceivedFrom(_, _)
ReceivedFrom(log, s) ==
    IF log = <<>> THEN <<>>
    ELSE (IF Head(log)[2] = s /\ Head(log)[1] > 0 THEN <<Head(log)[1]>> ELSE <<>>)
         \o ReceivedFrom(Tail(log), s)
Received(s) == ReceivedFrom(delivered, s)

\* the subscriptions notification n was delivered to, in the order of the calls
RECURSIVE ReceiversFrom(_, _)
ReceiversFrom(log, n) ==
    IF log = <<>> THEN <<>>
    ELSE (IF Head(log)[1] = n THEN <<Head(log)[2]>> ELSE <<>>)
         \o ReceiversFrom(Tail(log), n)
Receivers(n) == ReceiversFrom(delivered, n)

\* the fan-out of notification n has returned
FanOutOver(n) == \A k \in 1..Len(stack) : stack[k].ev # n

\* C9: every notification goes to exactly the subscribers registered when
\* its fan-out started, once each: never to another subscription, never
\* twice, and to all of them by the time the fan-out has returned.
FanOutToRegistered ==
    \A n \in 1..notices :
        /\ \A k \in 1..Len(Receivers(n)) : Receivers(n)[k] \in audience[n]
        /\ \A s \in 1..MaxSubs : Count(Receivers(n), s) <= 1
        /\ FanOutOver(n) => \A s \in audience[n] : Count(Receivers(n), s) = 1

\* C10: every subscriber receives each notification at most once and in the
\* order of emission, and one notification reaches the subscribers in
\* registration order.
DeliveredInEmissionOrder ==
    /\ \A s \in 1..MaxSubs :
          \A i, j \in 1..Len(Received(s)) :
              i < j => Received(s)[i] < Received(s)[j]
    /\ \A n \in 1..notices :
          \A i, j \in 1..Len(Receivers(n)) :
              i < j => Receivers(n)[i] < Receivers(n)[j]

\* --------------------------------------------------------------- SpecRead
\* processIncomingMessage fed with Read invocations and their results only:
\* four invocations, the results of the first two in one user fragment,
\* those of the last two in another
ReadFragments ==
    { AssistantRead(1, "a.txt"), AssistantRead(2, "b.txt"),
      AssistantRead(3, "c.txt"), AssistantRead(4, "d.txt"),
      Fragment("user", "", 0, <<ToolResultBlock(1, FALSE, 1), ToolResultBlock(2, FALSE, 2)>>),
      Fragment("user", "", 0, <<ToolResultBlock(3, FALSE, 3), ToolResultBlock(4, FALSE, 4)>>) }

NextRead ==
    \E message \in ReadFragments :
        applied < MaxReadFrags /\ ProcessIncomingMessage(message)

SpecRead == InitObserved /\ [][NextRead]_vars

\* -------------------------------------------------------------- SpecUsage
\* processIncomingMessage fed with usage reports and result fragments: two
\* assistant usage reports, a system init naming the model, a result with a
\* cost and the model's context window, a result with a cost and no
\* modelUsage, and a result without a cost
UsageFragments ==
    { [AssistantText EXCEPT !.usage = <<1, 1, 1, 1>>],
      [AssistantText EXCEPT !.usage = <<2, 0, 0, 1>>],
      [Fragment("system", "init", 0, <<>>) EXCEPT !.model = "m1"],
      [Fragment("result", "success", 0, <<>>) EXCEPT !.total_cost_usd = <<5>>,
                                                     !.modelUsage = {<<"m1", 200>>}],
      [Fragment("result", "success", 0, <<>>) EXCEPT !.total_cost_usd = <<7>>],
      [Fragment("result", "success", 0, <<>>) EXCEPT !.modelUsage = {<<"m1", 300>>}] }

NextUsage ==
    \E message \in UsageFragments :
        applied < MaxUsageFrags /\ ProcessIncomingMessage(message)

SpecUsage == InitObserved /\ [][NextUsage]_vars

\* ------------------------------------------------------------- SpecStream
\* one send() whose stream yields reads, their results, todo writes with a
\* usage report, the tool inventory and a result, watched by the tallying
\* subscriber
StreamedFragments ==
    { AssistantRead(1, "a.txt"), AssistantRead(2, "b.txt"),
      Fragment("user", "", 0, <<ToolResultBlock(1, FALSE, 1), ToolResultBlock(2, FALSE, 2)>>),
      [TodoWriteFragment(TodosA) EXCEPT !.usage = <<1, 1, 1, 1>>],
      TodoWriteFragment(TodosB),
      ToolsFragment,
      [ToolsFragment EXCEPT !.tools = <<(<<"Read">>)>>],
      ResultFragment }

NextStream ==
    \/ SendNow(1)
    \/ \E message \in StreamedFragments :
           Yielded < MaxStreamFrags /\ StreamStep(1, message)
    \/ StreamEnd(1)
    \/ StreamFail(1)
    \/ ResumeOwn(1)

SpecStream == InitObserved /\ [][NextStream]_vars

\* -------------------------------------------------------------- SpecThrow
\* the send of SpecStream with two subscribers: one whose callback throws
\* on a notification of applyMessageUpdates, and after it in the
\* subscribers Map the tallying subscriber

\* the notifications applyMessageUpdates emits (423-461)
UpdateTypes == {"message_removed", "message_added", "message_updated",
                "tool_result_updated", "session_info"}

\* variant in which noticeSubscribers catches what a callback throws and
\* records it: every subscriber is called and the loop goes on
Caught(c, r, k, again) ==
    /\ k \in 1..Len(r.events) /\ r.events[k].type \in UpdateTypes
    /\ Assign(r)
    /\ error' = CallbackError
    /\ UNCHANGED <<isLoading, queryPromise, loadingPromise, cancellationToken,
                   tokenCancelled, pc, promise, reactions, outcome, mq, calls>>

\* the fields of r are assigned up to the k-th notification of the
\* fragment, on which the first callback throws: noticeSubscribers
\* (126-130) does not call the next callback, applyMessageUpdates and
\* processIncomingMessage (396-409) are left, catch (342-346) records the
\* message, finally (347-352) clears the marker, the token and busy and
\* emits session_info, on which the first callback throws again or not;
\* the async block's promise rejects
Thrown(c, r, k, again) ==
    /\ k \in 1..Len(r.events) /\ r.events[k].type \in UpdateTypes
    /\ messages' = r.messages
    /\ messageCount' = r.messageCount
    /\ usageData' = r.usageData
    /\ currentMainLoopModel' = r.currentMainLoopModel
    /\ nextRef' = r.nextRef
    /\ todos' = r.todos
    /\ tools' = r.tools
    /\ pendingTodosBroadcast' = r.pendingTodosBroadcast
    /\ pendingToolsBroadcast' = r.pendingToolsBroadcast
    /\ error' = CallbackError
    /\ queryPromise' = 0
    /\ cancellationToken' = 0
    /\ busy' = FALSE
    /\ Observe(SubSeq(r.events, 1, k - 1)
               \o (IF again THEN <<>>
                   ELSE <<session_info(claudeSessionId, r.messageCount, FALSE)>>))
    /\ promise' = [promise EXCEPT ![c] = PromiseOf("rejected", 0, ZeroUsage)]
    /\ mq' = [j \in 1..Len(reactions[c]) |-> [who |-> reactions[c][j], on |-> c]]
    /\ reactions' = [reactions EXCEPT ![c] = <<>>]
    /\ pc' = [pc EXCEPT ![c] = "returning"]
    /\ UNCHANGED <<claudeSessionId, summary, lastModifiedTime, isLoading,
                   loadingPromise, tokenCancelled, outcome, calls>>

ThrownAtSome(c, r, again) == \E k \in 1..Len(r.events) : Thrown(c, r, k, again)

\* the body of the for-await loop (316-329) for a fragment on whose
\* notifications the first callback throws
StreamStepThrows(c, message) ==
    /\ Macrotask /\ pc[c] = "streaming"
    /\ ~(cancellationToken # 0 /\ tokenCancelled[cancellationToken])
    /\ streamLog' = [streamLog EXCEPT ![c] = Append(@, message)]
    /\ \E again \in BOOLEAN :
           ThrownAtSome(c, processIncomingMessage(message, Session), again)
    /\ UNCHANGED <<pipeVars, loadVars, fanVars>>

NextThrow ==
    \/ SendNow(1)
    \/ \E message \in StreamedFragments :
           Yielded < MaxThrowFrags /\ StreamStep(1, message)
    \/ \E message \in StreamedFragments :
           Yielded < MaxThrowFrags /\ StreamStepThrows(1, message)
    \/ StreamEnd(1)
    \/ StreamFail(1)
    \/ ResumeOwn(1)

SpecThrow == InitObserved /\ [][NextThrow]_vars

\* --------------------------------------------------------------- SpecTime
\* the clock advances; a send, live fragments and loads of histories whose
\* fragments carry a timestamp of the past or of the present, or none
Tick ==
    /\ Macrotask /\ now < MaxClock
    /\ now' = now + 1
    /\ Observe(<<>>)
    /\ UNCHANGED <<sessVars, lastModifiedTime, callVars, applied, fed, constructed,
                   autoVars, loadVars, fanVars>>

\* the fragments that may arrive at the present time
TimedFragments ==
    {AssistantText} \cup {[AssistantText EXCEPT !.timestamp = t] : t \in 1..now}

NextTime ==
    \/ Tick
    \/ SendNow(1)
    \/ \E message \in TimedFragments : Yielded < MaxFrags /\ StreamStep(1, message)
    \/ StreamEnd(1)
    \/ ResumeOwn(1)
    \/ \E message \in TimedFragments : LiveUpdate(message)
    \/ LoadFromServer("s2")
    \/ LoadEmpty
    \/ \E message \in TimedFragments : LoadHistory(<<message>>)
    \/ LoadFail

SpecTime == Init /\ [][NextTime]_vars

\* ----------------------------------------------------------- SpecContinue
\* AutoContinueSession.send (cas-client.ts 481-525) on the Session of the
\* variables, for the four combinations of continue and two maxTurns, with
\* streams that write todos and tools
MaxTurnsChoices == {3, 7}

ContinueFragments == {TodoWriteFragment(TodosA), ToolsFragment, AssistantTextFragment}

\* a session as SessionManager.createSession leaves it (chat-message.ts
\* 523-532, cas-client.ts 578-595): id is its position of creation, the
\* Session of the variables being 1
NewSession(id) ==
    [id |-> id, summary |-> NULL, todos |-> <<>>, tools |-> <<>>,
     messages |-> <<>>, busy |-> FALSE, claudeSessionId |-> NULL, subscribers |-> {}]

\* the Session of the variables as one of the manager's sessions
ThisSession ==
    [id |-> 1, summary |-> summary, todos |-> todos, tools |-> tools,
     messages |-> messages, busy |-> busy, claudeSessionId |-> claudeSessionId,
     subscribers |-> subscribers]

\* variant of triggerThreshold without Math.max(1, ...)
triggerThresholdUnclamped(maxTurns) == maxTurns - 5

\* triggerThreshold (502)
triggerThreshold(maxTurns) == IF maxTurns - 5 > 1 THEN maxTurns - 5 ELSE 1

\* 491-509: does send continue in a new session?
isApproachingLimit(session) ==
    /\ options.continue
    /\ Len(session.messages) >= triggerThreshold(options.maxTurns)

\* transferSessionContext (530-553)
transferSessionContext(oldSession, newSession) ==
    [newSession EXCEPT
        !.summary = IF oldSession.summary # NULL THEN oldSession.summary ELSE @,
        !.todos = IF Len(oldSession.todos) > 0 THEN oldSession.todos ELSE @,
        !.tools = IF Len(oldSession.tools) > 0 THEN oldSession.tools ELSE @]

\* Session.send on an idle session of the list, up to its first await
\* (session.ts 254-296): the user turn, the summary, busy
PlainSend(session, ref) ==
    [session EXCEPT
        !.messages = coalesceReadMessages(
                         appendRenderableMessage(@, Fragment("user", "", 0, <<TextBlock>>),
                                                 ref).messages, ref + 1),
        !.summary = IF @ = NULL THEN PromptText ELSE @,
        !.busy = TRUE]

\* AutoContinueSession.send on the newest session of the list (list[1]),
\* and the continuation of a send on oldSession (511-517): createSession
\* puts the new session at the head of the list, the context is
\* transferred, and the prompt is sent there, through the same send
RECURSIVE SendOnNewest(_, _, _)
ContinueIn(list, oldSession, ref, depth) ==
    SendOnNewest(<<transferSessionContext(oldSession, NewSession(Len(list) + 2))>> \o list,
                 ref, depth)

SendOnNewest(list, ref, depth) ==
    IF isApproachingLimit(list[1]) /\ depth < MaxDelegations
    THEN ContinueIn(list, list[1], ref, depth + 1)
    ELSE <<PlainSend(list[1], ref)>> \o Tail(list)

\* send() on the Session of the variables when it is approaching the limit
\* (511-517): the new session is created, given the context and the prompt
Continue(c) ==
    /\ Macrotask /\ NextCaller(c) /\ calls < MaxCalls
    /\ isApproachingLimit(ThisSession)
    /\ calls' = calls + 1
    /\ sessionsList' = ContinueIn(sessionsList, ThisSession, nextRef, 0)
    /\ nextRef' = nextRef + 2
    /\ pc' = [pc EXCEPT ![c] = "delegated"]
    /\ continuations' = [continuations EXCEPT
                             ![c] = Continuation(FALSE, Len(sessionsList) + 2)]
    /\ Observe(<<>>)
    /\ UNCHANGED <<messages, messageCount, claudeSessionId, error, busy, isLoading,
                   queryPromise, loadingPromise, cancellationToken, usageData,
                   currentMainLoopModel, tokenCancelled, aggVars, promise, reactions,
                   outcome, streamLog, mq, applied, fed, constructed, options, timers,
                   now, loadVars, fanVars>>

\* AutoContinueSession.send (481-525) up to its first await
AutoSend(c) ==
    \/ Continue(c)
    \/ ~isApproachingLimit(ThisSession) /\ (SendNow(c) \/ SendWait(c))

\* the send in the new session resolved (517): send returns its result
\* with continued and newSession (519-523)
ContinuedReturns(c, success) ==
    /\ Macrotask /\ pc[c] = "delegated"
    /\ pc' = [pc EXCEPT ![c] = "done"]
    /\ outcome' = [outcome EXCEPT ![c] =
                      Outcome("resolved", success, NULL, 0, 0, ZeroUsage)]
    /\ continuations' = [continuations EXCEPT
                             ![c] = Continuation(TRUE, @.newSession)]
    /\ sessionsList' = [j \in 1..Len(sessionsList) |->
                           IF sessionsList[j].id = continuations[c].newSession
                           THEN [sessionsList[j] EXCEPT !.busy = FALSE]
                           ELSE sessionsList[j]]
    /\ Observe(<<>>)
    /\ UNCHANGED <<sessVars, lastModifiedTime, promise, reactions, streamLog, mq, calls, applied, fed,
                   constructed, options, timers, now, loadVars, fanVars>>

InitContinue ==
    /\ InitSession /\ observing = FALSE /\ constructed = constructor(DefaultClient)
    /\ \E continue \in BOOLEAN, maxTurns \in MaxTurnsChoices :
           InitManager(Options(continue, maxTurns))

NextContinue ==
    \/ \E c \in Callers : AutoSend(c)
    \/ \E c \in Callers : \E success \in BOOLEAN : ContinuedReturns(c, success)
    \/ \E c \in Callers : WaiterProceeds(c)
    \/ \E c \in Callers : WaiterRejects(c)
    \/ \E c \in Callers : ResumeOwn(c)
    \/ \E c \in Callers : \E message \in ContinueFragments :
           Yielded < MaxContinueFrags /\ StreamStep(c, message)
    \/ \E c \in Callers : StreamEnd(c)
    \/ \E c \in Callers : StreamFail(c)

SpecContinue == InitContinue /\ [][NextContinue]_vars

\* -------------------------------------------------------------- SpecClean
\* a SessionManager (chat-message.ts 479-571) whose sessions are all in
\* sessionsList: they are created, subscribed to, sent to and loaded, and
\* cleanupEmptySessions is called at any time

\* what the steps of the manager leave alone
managed == <<sessVars, lastModifiedTime, callVars, applied, fed, constructed, options,
             continuations, now, loadVars, fanVars>>

SessionIds == 2..(MaxSessions + MaxTimers + 1)

\* the session object of that identity, if the list holds it
Listed(id) == {j \in 1..Len(sessionsList) : sessionsList[j].id = id}

\* Session.hasSubscribers (session.ts 78-80)
hasSubscribers(session) == Cardinality(session.subscribers) > 0

\* hasPersistentState (544-546)
hasPersistentState(session) ==
    session.claudeSessionId # NULL \/ Len(session.messages) > 0

\* the test of 550 and of 553
Removable(session) == ~hasSubscribers(session) /\ ~hasPersistentState(session)

\* createSession (523-532): a new object at the head of the list
CreateSession ==
    /\ Macrotask /\ Len(sessionsList) < MaxSessions
    /\ LET free == {id \in SessionIds :
                        Listed(id) = {} /\ \A k \in 1..Len(timers) : timers[k] # id}
       IN /\ free # {}
          /\ sessionsList' = <<NewSession(SetMin(free))>> \o sessionsList
    /\ Observe(<<>>)
    /\ UNCHANGED <<managed, timers>>

\* the session at position j replaced by what a call made of it
Replaced(j, session) ==
    /\ Macrotask
    /\ sessionsList' = [sessionsList EXCEPT ![j] = session]
    /\ Observe(<<>>)
    /\ UNCHANGED <<managed, timers>>

\* session.subscribe(callback) and the unsubscribe function it returned
\* (session.ts 60-76)
SubscribeTo(j) ==
    /\ sessionsList[j].subscribers = {}
    /\ Replaced(j, [sessionsList[j] EXCEPT !.subscribers = {1}])
UnsubscribeFrom(j) ==
    /\ sessionsList[j].subscribers # {}
    /\ Replaced(j, [sessionsList[j] EXCEPT !.subscribers = {}])

\* session.send(prompt) on an idle session without turns
SendTo(j) ==
    /\ ~sessionsList[j].busy /\ sessionsList[j].messages = <<>>
    /\ Replaced(j, PlainSend(sessionsList[j], 1))

\* session.loadFromServer(id) (session.ts 177-189): the id is set before
\* anything is fetched
LoadInto(j) ==
    /\ sessionsList[j].claudeSessionId = NULL
    /\ Replaced(j, [sessionsList[j] EXCEPT !.claudeSessionId = "s2"])

\* cleanupEmptySessions (548-560): one setTimeout for every session of the
\* list that passes the test, in the order of the list
cleanupEmptySessions ==
    /\ Macrotask
    /\ LET due == SelectSeq(sessionsList, Removable)
       IN /\ Len(timers) + Len(due) <= MaxTimers
          /\ timers' = timers \o [k \in 1..Len(due) |-> due[k].id]
    /\ Observe(<<>>)
    /\ UNCHANGED <<managed, sessionsList>>

\* variant of the callback that filters without the second test
AfterGraceUntested(list, id) ==
    SelectSeq(list, LAMBDA session : session.id # id)

\* the list after the callback of the timer for the session of that
\* identity (552-557): the test again, then the filter
AfterGrace(list, id) ==
    SelectSeq(list, LAMBDA session : ~(session.id = id /\ Removable(session)))

\* the grace period of the oldest timer expires
GraceExpires ==
    /\ Macrotask /\ timers # <<>>
    /\ sessionsList' = AfterGrace(sessionsList, Head(timers))
    /\ timers' = Tail(timers)
    /\ Observe(<<>>)
    /\ UNCHANGED managed

NextClean ==
    \/ CreateSession
    \/ \E j \in 1..Len(sessionsList) : SubscribeTo(j)
    \/ \E j \in 1..Len(sessionsList) : UnsubscribeFrom(j)
    \/ \E j \in 1..Len(sessionsList) : SendTo(j)
    \/ \E j \in 1..Len(sessionsList) : LoadInto(j)
    \/ cleanupEmptySessions
    \/ GraceExpires

SpecClean == Init /\ [][NextClean]_vars

\* a timer that was set expires (setTimeout, 552)
SpecCleanFair == SpecClean /\ WF_vars(GraceExpires)

\* ---- claims about loads (SpecLoad)

\* number of notifications of the type among events
CountType(events, type) == Cardinality({j \in 1..Len(events) : events[j].type = type})

\* C11: a call of loadFromServer / resumeFrom made while a load is running
\* returns the promise of that load and starts no fetch, whatever id it
\* names; a call made when no load is running (none yet, or the last one has
\* settled) and a target id exists starts a new fetch and returns the new
\* load's promise.
RunningLoadIsShared ==
    [][\A sessionId \in LoadIds :
          (LoadFromServer(sessionId) \/ (sessionId # NULL /\ ResumeFrom(sessionId)))
          => IF loadingPromise # NULL
             THEN /\ loadState = "pending" /\ loadState' = "pending"
                  /\ returned' = Append(returned, fetches)
                  /\ fetches' = fetches
                  /\ claudeSessionId' = claudeSessionId
             ELSE (sessionId # NULL \/ claudeSessionId # NULL)
                  => /\ fetches' = fetches + 1
                     /\ returned' = Append(returned, fetches + 1)
                     /\ loadState' = "pending"]_vars

\* C11 witness: two calls got the promise of the first load, and a call made
\* after that load settled got the promise of a second load
SharedThenFresh == returned = <<1, 1, 2>> /\ fetches = 2

\* C14: when the fetch of a load fails, the error is recorded, isLoading is
\* cleared, the load's promise resolves, and the turn list and the turn
\* count are left as they were.
FailedLoadKeepsHistory ==
    [][LoadFail => /\ error' = LoadError
                   /\ isLoading' = FALSE
                   /\ loadState = "pending" /\ loadState' = "fulfilled"
                   /\ messages' = messages
                   /\ messageCount' = messageCount]_vars

\* C14 witness: the second load failed on a Session whose history came from
\* the first load
SecondLoadFailed ==
    /\ fetches = 2 /\ error = LoadError /\ loadState = "fulfilled" /\ ~isLoading
    /\ applied = 0 /\ Len(messages) > 0 /\ messageCount = Len(messages)

\* C15: a load that fetched an empty history leaves no turn, turn count 0,
\* no todo, no tool, Usage zero, and notifies usage_updated, messages_loaded
\* (count 0) and session_info (count 0).
EmptyLoadResets ==
    [][LoadEmpty => /\ messages' = <<>> /\ messageCount' = 0
                    /\ todos' = <<>> /\ tools' = <<>>
                    /\ usageData' = ZeroUsage
                    /\ \E i, j, k \in 1..Len(emitted') :
                          /\ emitted'[i] = usage_updated(claudeSessionId, ZeroUsage)
                          /\ emitted'[j] = messages_loaded(claudeSessionId, 0)
                          /\ emitted'[k].type = "session_info"
                          /\ emitted'[k].messageCount = 0]_vars

\* C15 witness: an empty load has just cleared a Session that had todos and
\* tools (their deferred notifications followed the load's own)
EmptyLoadCleared ==
    /\ messages = <<>> /\ todos = <<>> /\ tools = <<>> /\ usageData = ZeroUsage
    /\ CountType(emitted, "messages_loaded") = 1
    /\ CountType(emitted, "todos_updated") = 1
    /\ CountType(emitted, "tools_updated") = 1

\* the todo lists a history writes, in order (TodoWrite blocks with todos)
RECURSIVE TodoListsOf(_, _)
TodoListsOf(history, k) ==
    IF k > Len(history) THEN <<>>
    ELSE (IF history[k].type = "assistant"
          THEN LET content == history[k].content
                   written == {j \in 1..Len(content) :
                                  content[j].type = "tool_use" /\ content[j].name = "TodoWrite"}
               IN  [j \in 1..Cardinality(written) |->
                       content[CHOOSE x \in written :
                                  Cardinality({y \in written : y < x}) = j - 1].input]
          ELSE <<>>)
         \o TodoListsOf(history, k + 1)

\* the tool lists a history announces, in order (system init with tools)
RECURSIVE ToolListsOf(_, _)
ToolListsOf(history, k) ==
    IF k > Len(history) THEN <<>>
    ELSE (IF history[k].type = "system" /\ history[k].subtype = "init"
             /\ history[k].tools # <<>>
          THEN <<history[k].tools[1]>> ELSE <<>>)
         \o ToolListsOf(history, k + 1)

\* some value of the sequence differs from its predecessor
Changes(values) == \E j \in 1..(Len(values) - 1) : values[j] # values[j + 1]

\* the events carry one notification of the type if due and none otherwise,
\* after any messages_loaded
FlushedAfterLoad(events, type, due) ==
    /\ CountType(events, type) = IF due THEN 1 ELSE 0
    /\ \A i, j \in 1..Len(events) :
          (events[i].type = type /\ events[j].type = "messages_loaded") => j < i

\* C12: while a load is in progress no todos_updated and no tools_updated is
\* delivered; the step that completes the load delivers exactly one
\* todos_updated if a change of the todo list was detected during the load
\* (however many TodoWrite calls the history holds) and none otherwise, and
\* likewise one tools_updated, after the load's own notifications; outside a
\* load neither latch is set, and a step delivers todos_updated or
\* tools_updated only when it changes the list.
DeferredOnceAfterLoad ==
    /\ [](~isLoading => ~pendingTodosBroadcast /\ ~pendingToolsBroadcast)
    /\ [][/\ isLoading' => /\ CountType(emitted', "todos_updated") = 0
                           /\ CountType(emitted', "tools_updated") = 0
          /\ LoadFail
             => /\ FlushedAfterLoad(emitted', "todos_updated", pendingTodosBroadcast)
                /\ FlushedAfterLoad(emitted', "tools_updated", pendingToolsBroadcast)
          /\ LoadEmpty
             => /\ FlushedAfterLoad(emitted', "todos_updated",
                                    pendingTodosBroadcast \/ todos # <<>>)
                /\ FlushedAfterLoad(emitted', "tools_updated",
                                    pendingToolsBroadcast \/ tools # <<>>)
          /\ (isLoading /\ ~isLoading' /\ ~LoadFail /\ ~LoadEmpty)
             => /\ FlushedAfterLoad(emitted', "todos_updated",
                       pendingTodosBroadcast
                       \/ Changes(<<todos, <<>>>> \o TodoListsOf(fetched', 1)))
                /\ FlushedAfterLoad(emitted', "tools_updated",
                       pendingToolsBroadcast
                       \/ Changes(<<tools, <<>>>> \o ToolListsOf(fetched', 1)))
          /\ (~isLoading /\ ~isLoading')
             => /\ CountType(emitted', "todos_updated") > 0 => todos' # todos
                /\ CountType(emitted', "tools_updated") > 0 => tools' # tools]_vars

\* C12 witness: a load of a history with three TodoWrite calls has completed
\* and delivered one todos_updated
ThreeTodoWritesOneUpdate ==
    /\ ~isLoading /\ loadState = "fulfilled" /\ applied = 0
    /\ Len(fetched) = 3 /\ Len(TodoListsOf(fetched, 1)) = 3
    /\ Len(messages) = 3
    /\ \A i \in 1..3 : \E j \in 1..Len(messages[i].content) :
          /\ messages[i].content[j].content.type = "tool_use"
          /\ messages[i].content[j].content.name = "TodoWrite"
    /\ CountType(emitted, "messages_loaded") = 1
    /\ CountType(emitted, "todos_updated") = 1

\* ---- claims about the pipeline (SpecPipe)

\* generated ids (nanoid, coalesced_<random>) differ from run to run
Anonymous(id) == IF id < 0 THEN 0 ELSE id

\* a turn list without object identities and with generated ids blanked
Shape(list) ==
    [i \in 1..Len(list) |->
        [type |-> list[i].type, id |-> Anonymous(list[i].id),
         content |-> [k \in 1..Len(list[i].content) |->
                         [content |-> [list[i].content[k].content
                                           EXCEPT !.id = Anonymous(@)],
                          toolResult |-> [list[i].content[k].toolResult
                                              EXCEPT !.id = Anonymous(@)]]]]]

\* setMessages on a newly constructed Session, before its loop
EmptySession ==
    [usageData |-> ZeroUsage, currentMainLoopModel |-> "",
     rendered |-> <<>>, ref |-> 1,
     state |-> Aggregates(<<>>, <<>>, FALSE, FALSE, <<>>)]

\* the Session's state is the one setMessages ends with
SameAsLoaded(st) ==
    /\ Shape(messages) = Shape(coalesceReadMessages(st.rendered, st.ref))
    /\ todos = st.state.todos
    /\ tools = st.state.tools
    /\ usageData = st.usageData

\* C13: the state of a Session that was fed a sequence of fragments one by
\* one equals the state a load of the same sequence as history produces:
\* same turn list up to generated ids, same todos, tools and usage.
LiveEqualsLoad == SameAsLoaded(Replay(fed, 1, EmptySession))

\* ---- claims about the coalescer (SpecPipe, SpecRead)

\* the read-predicate as the claim words it: an assistant turn with a single
\* part, an invocation of Read, that carries a non-error result
ReadPredicate(turn) ==
    /\ turn.type = "assistant"
    /\ Len(turn.content) = 1
    /\ turn.content[1].content.type = "tool_use"
    /\ turn.content[1].content.name = "Read"
    /\ turn.content[1].toolResult # NoResult
    /\ ~turn.content[1].toolResult.is_error

\* the index after the run of ReadPredicate turns that starts at next
RECURSIVE ReadRunEnd(_, _)
ReadRunEnd(list, next) ==
    IF next > Len(list) \/ ~ReadPredicate(list[next]) THEN next
    ELSE ReadRunEnd(list, next + 1)

\* the inputs of the invocations of a run, in order
RECURSIVE RunInputs(_)
RunInputs(run) ==
    IF run = <<>> THEN <<>>
    ELSE Head(run).content[1].content.input \o RunInputs(Tail(run))

\* the synthetic turn that stands for a run
SummaryTurn(run) ==
    ChatMessage("assistant",
                <<[content |-> Block("tool_use", 0, "ReadCoalesced", RunInputs(run),
                                     FALSE, 0, 0),
                   toolResult |-> Block("tool_result", 0, "", <<>>, FALSE, 0, Len(run))]>>,
                run[1].id, 0)

\* every maximal run of two or more ReadPredicate turns replaced by its
\* summary, every other turn passed through
RECURSIVE MergedRuns(_, _)
MergedRuns(list, index) ==
    IF index > Len(list) THEN <<>>
    ELSE IF ReadPredicate(list[index]) /\ ReadRunEnd(list, index + 1) - index > 1
    THEN <<SummaryTurn(SubSeq(list, index, ReadRunEnd(list, index + 1) - 1))>>
         \o MergedRuns(list, ReadRunEnd(list, index + 1))
    ELSE <<list[index]>> \o MergedRuns(list, index + 1)

CoalescedAsStated(st) ==
    Shape(coalesceReadMessages(st.rendered, st.ref)) = Shape(MergedRuns(st.rendered, 1))

\* C16: coalesceReadMessages, applied to the rendering of any fragment
\* sequence, replaces each maximal run of two or more consecutive
\* single-invocation successful Read turns by one synthetic turn with the
\* run's inputs in order and a result stating the run's length, and passes
\* every other turn through unchanged and in order.
CoalescesReadRuns == CoalescedAsStated(Replay(fed, 1, EmptySession))

\* a turn made by the coalescer: its one invocation has a coalesced_<random>
\* id (a negative id here)
IsSynthetic(turn) ==
    /\ Len(turn.content) = 1
    /\ turn.content[1].content.type = "tool_use"
    /\ turn.content[1].content.id < 0

IdempotentOn(st) ==
    coalesceReadMessages(coalesceReadMessages(st.rendered, st.ref), st.ref + Len(st.rendered))
        = coalesceReadMessages(st.rendered, st.ref)

\* C17: coalescing its own output changes nothing, both for the rendering of
\* the fragments fed so far and for the Session's history; and a synthetic
\* turn of the history survives every later coalescing pass as it is.
CoalescingIdempotent ==
    /\ [](/\ IdempotentOn(Replay(fed, 1, EmptySession))
          /\ coalesceReadMessages(messages, nextRef) = messages)
    /\ [][\A i \in 1..Len(messages) :
             IsSynthetic(messages[i])
             => \E j \in 1..Len(messages') : messages'[j] = messages[i]]_vars

\* C17 witness: the history holds a synthetic turn directly followed by a
\* successful Read turn
SyntheticNextToRead ==
    \E i \in 1..(Len(messages) - 1) :
        /\ IsSynthetic(messages[i])
        /\ isReadToolUse(messages[i + 1]) /\ hasSuccessfulToolResult(messages[i + 1])

\* ---- claims about the differ (SpecPipe)

\* C18: the diff of the Session's history against itself, with no explicitly
\* updated turn, has no added, no updated and no removed entry, also when an
\* id occurs more than once in the history.
SelfDiffEmpty ==
    diffMessages(messages, messages, <<>>) = [added |-> <<>>, updated |-> <<>>, removed |-> <<>>]

\* C18 witness: a history in which two turns (different objects) share an id
RepeatedIdInHistory ==
    \E i, j \in 1..Len(messages) :
        i < j /\ messages[i].id = messages[j].id /\ messages[i].ref # messages[j].ref

\* ---- claims about usage (SpecUsage)

\* positions in the log of the assistant fragments with a usage report, and
\* of the result fragments with a cost
UsageReports(log) ==
    {k \in 1..Len(log) : log[k].type = "assistant" /\ log[k].usage # <<>>}
CostResults(log) ==
    {k \in 1..Len(log) : log[k].type = "result" /\ log[k].total_cost_usd # <<>>}

\* the model named by the last system init before position k
ModelBefore(log, k) ==
    LET inits == {j \in 1..(k - 1) : /\ log[j].type = "system"
                                     /\ log[j].subtype = "init" /\ log[j].model # ""}
    IN IF inits = {} THEN "" ELSE log[SetMax(inits)].model

\* the context windows a fragment states for the model
WindowsOf(message, modelName) == {e[2] : e \in {x \in message.modelUsage : x[1] = modelName}}

\* the result fragments with a cost that state a context window for the
\* model current when they arrive
WindowResults(log) ==
    {k \in CostResults(log) : WindowsOf(log[k], ModelBefore(log, k)) # {}}

TokensFromLastReport ==
    usageData.totalTokens =
        IF UsageReports(fed) = {} THEN 0 ELSE SumSeq(fed[SetMax(UsageReports(fed))].usage)

CostFromLastResult ==
    usageData.totalCost =
        IF CostResults(fed) = {} THEN 0 ELSE fed[SetMax(CostResults(fed))].total_cost_usd[1]

\* a usage report leaves cost and context window alone, a result fragment
\* leaves the token total alone
ReportsAndResultsIndependent ==
    \A message \in UsageFragments :
        fed' = Append(fed, message)
        => /\ message.type = "assistant"
              => /\ usageData'.totalCost = usageData.totalCost
                 /\ usageData'.contextWindow = usageData.contextWindow
           /\ message.type = "result" => usageData'.totalTokens = usageData.totalTokens

\* C19 as stated: the token total is that of the most recent usage report,
\* and cost and context window are both taken from the most recent result
\* fragment with a cost (the context window is one that fragment states, or
\* still the initial 0)
UsageFromMostRecent ==
    /\ TokensFromLastReport
    /\ CostFromLastResult
    /\ CostResults(fed) # {}
       => usageData.contextWindow
              \in {e[2] : e \in fed[SetMax(CostResults(fed))].modelUsage} \cup {0}

\* C19 amended: the token total is that of the most recent usage report
\* alone; the cost is that of the most recent result fragment with a cost;
\* the context window is the one stated for the current model by the most
\* recent such fragment that states one (a result with a cost and no entry
\* for the current model replaces the cost and keeps the context window);
\* usage reports never change cost or context window, result fragments
\* never change the token total.
UsageTracksReportsAndResults ==
    /\ [](/\ TokensFromLastReport
          /\ CostFromLastResult
          /\ usageData.contextWindow \in
                IF WindowResults(fed) = {} THEN {0}
                ELSE WindowsOf(fed[SetMax(WindowResults(fed))],
                               ModelBefore(fed, SetMax(WindowResults(fed)))))
    /\ [][ReportsAndResultsIndependent]_vars

\* C19 witness: two usage reports, the second one replacing the first, after
\* a result with cost and context window and a later result with a cost only
SecondReportAfterTwoResults ==
    /\ Cardinality(UsageReports(fed)) = 2
    /\ usageData = UsageSummary(3, 7, 200)

\* ---- claims about cancel (Spec)

\* no send() call is between its entry and its end
NoSendInFlight ==
    /\ queryPromise = 0 /\ cancellationToken = 0
    /\ \A c \in Callers : pc[c] \in {"idle", "done"}

\* C20: cancel() called while no send is in flight changes neither error,
\* busy, the history, the aggregates nor the in-flight bookkeeping, and
\* emits no notification.
IdleCancelIsNoOp ==
    [][(Cancel /\ NoSendInFlight)
       => /\ UNCHANGED <<error, busy, messages, messageCount, usageData, aggVars,
                        queryPromise, cancellationToken>>
          /\ emitted' = <<>>]_vars

\* ---- claims about subscribe (SpecFan)

InvalidClientRefused ==
    /\ constructed.argument # DefaultClient => constructed.error # ""
    /\ constructed.error = "" => constructed.client.methods = {"queryStream", "getSession"}

\* ---- claims about continuation (SpecContinue)

\* the send() call c is made in this step
Calls(c) == pc[c] = "idle" /\ pc'[c] # "idle"

\* the session with the id among the sessions the manager created
CreatedSessions(id) == {j \in 1..Len(sessionsList) : sessionsList[j].id = id}

\* C23: with continuation enabled, a send made when the session holds at
\* least max(1, maxTurns - 5) turns leaves the session's history as it
\* was, adds exactly one session to the manager's, gives it the summary,
\* the todos and the tools, sends the prompt there (and only there: the
\* new session does not continue in turn), and returns continued = true
\* with that session; any other send is the plain Session.send.
ContinuesOnceAtThreshold ==
    [][\A c \in Callers :
          /\ Calls(c) =>
                IF /\ options.continue
                   /\ Len(messages) >= 1
                   /\ Len(messages) >= options.maxTurns - 5
                THEN /\ messages' = messages /\ messageCount' = messageCount
                     /\ Len(sessionsList') = Len(sessionsList) + 1
                     /\ Tail(sessionsList') = sessionsList
                     /\ CreatedSessions(sessionsList'[1].id) = {}
                     /\ sessionsList'[1].summary = summary
                     /\ sessionsList'[1].todos = todos
                     /\ sessionsList'[1].tools = tools
                     /\ Len(sessionsList'[1].messages) = 1
                     /\ sessionsList'[1].messages[1].type = "user"
                     /\ continuations'[c].newSession = sessionsList'[1].id
                ELSE /\ SendNow(c) \/ SendWait(c)
                     /\ UNCHANGED autoVars
          /\ (pc[c] = "delegated" /\ pc'[c] = "done")
                => /\ continuations'[c].continued
                   /\ outcome'[c].state = "resolved"
                   /\ CreatedSessions(continuations'[c].newSession) # {}
          /\ (~Calls(c) /\ pc[c] # "delegated")
                => continuations'[c] = continuations[c]]_vars

\* a send that continued has returned, and the session it was given holds
\* the todos and the tools of the session it left
ContinuedWithTodosAndTools ==
    \E c \in Callers :
        /\ continuations[c].continued /\ pc[c] = "done"
        /\ todos # <<>> /\ tools # <<>>
        /\ \E j \in CreatedSessions(continuations[c].newSession) :
               /\ sessionsList[j].todos = todos
               /\ sessionsList[j].tools = tools
               /\ sessionsList[j].summary = PromptText

\* ---- claims about the differ (SpecPipe)

Ids(list) == {list[j].id : j \in 1..Len(list)}
Elements(list) == {list[j] : j \in 1..Len(list)}
\* the turn a snapshot holds under the id: the first one of the list
TurnOf(list, id) == list[SetMin({j \in 1..Len(list) : list[j].id = id})]

\* d is the difference of previous and next as stated: added, removed and
\* updated by id, added in next's order, every id reported once
DiffAsStated(previous, next, explicitlyUpdated, d) ==
    LET IsNew(m) == m.id \notin Ids(previous)
        changed == {id \in Ids(previous) \cap Ids(next) :
                       \/ id \in Ids(explicitlyUpdated)
                       \/ TurnOf(previous, id).ref # TurnOf(next, id).ref}
    IN /\ d.added = SelectSeq(next, IsNew)
       /\ Elements(d.removed) = Ids(previous) \ Ids(next)
       /\ Len(d.removed) = Cardinality(Elements(d.removed))
       /\ Ids(d.updated) = changed
       /\ Len(d.updated) = Cardinality(changed)
       /\ Elements(d.updated) \subseteq Elements(next)
       /\ Ids(d.added) \cap Elements(d.removed) = {}

\* the fragment processed by the step
Processed == fed'[Len(fed')]

\* C24: for the snapshots before and after every fragment and the turns
\* the linker touched, diffMessages returns as added the turns of next
\* whose id previous lacks, in next's order; as removed the ids of previous
\* that next lacks; as updated, once each, the turns held by both whose
\* reference differs or whose id is among the touched turns'; and no id as
\* both added and removed.
DiffClassifiesById ==
    [][DiffAsStated(messages, messages',
                    appendRenderableMessage(messages, Processed, nextRef).updatedMessages,
                    diffMessages(messages, messages',
                                 appendRenderableMessage(messages, Processed,
                                                         nextRef).updatedMessages))]_vars

\* one fragment has just added a turn, removed one and updated one
AddedRemovedUpdatedAtOnce ==
    /\ CountType(emitted, "message_added") > 0
    /\ CountType(emitted, "message_removed") > 0
    /\ CountType(emitted, "message_updated") > 0

\* ---- claims about what coalescing absorbs (SpecPipe)

\* the history the fragment of the step was appended to, before coalescing
Appended == appendRenderableMessage(messages, Processed, nextRef).messages

\* the turn has a part besides its first one
HasAdditionalPart(turn) == Len(turn.content) > 1

\* C25: a turn that holds any part besides a single invocation of Read is
\* never absorbed into a coalesced turn: every such turn of the appended
\* history is still a turn of the history after coalescing.
OnlySingleReadTurnsAbsorbed ==
    [][\A j \in 1..Len(Appended) :
          HasAdditionalPart(Appended[j])
              => \E k \in 1..Len(messages') : messages'[k] = Appended[j]]_vars

\* ---- claims about the stored history (SpecRead)

\* C26: coalescing never removes or replaces a turn of the history the
\* Session keeps: every turn object of the history before a fragment is a
\* turn of the history after it, so every original read turn stays.
StoredHistoryKeepsTurns ==
    [][\A j \in 1..Len(messages) :
          \E k \in 1..Len(messages') : messages'[k].ref = messages[j].ref]_vars

\* ---- claims about live coalescing (SpecRead)

Refs(list) == {list[j].ref : j \in 1..Len(list)}

\* the positions of the synthetic turns the step created
CreatedSynthetic ==
    {k \in 1..Len(messages') :
        IsSynthetic(messages'[k]) /\ messages'[k].ref \notin Refs(messages)}

\* the positions, in the appended history, of the turns the step absorbed
Absorbed == {p \in 1..Len(Appended) : Appended[p].ref \notin Refs(messages')}

\* C27: a synthetic turn made while a fragment is processed has the id and
\* the timestamp of the first turn of the run it replaces and stands where
\* that turn stood; the fragment's notifications hold message_updated for
\* that id, message_removed for the id of every other absorbed turn, and
\* no message_added for the synthetic turn.
SyntheticStandsForFirst ==
    [][\A k \in CreatedSynthetic :
          /\ \E p \in Absorbed :
                /\ Appended[p].id = messages'[k].id
                /\ Appended[p].timestamp = messages'[k].timestamp
                /\ \A q \in Absorbed : p <= q
                /\ SubSeq(Appended, 1, p - 1) = SubSeq(messages', 1, k - 1)
          /\ \E e \in 1..Len(emitted') :
                /\ emitted'[e].type = "message_updated"
                /\ emitted'[e].messageId = messages'[k].id
          /\ \A p \in Absorbed :
                Appended[p].id # messages'[k].id
                    => \E e \in 1..Len(emitted') :
                          /\ emitted'[e].type = "message_removed"
                          /\ emitted'[e].messageId = Appended[p].id
          /\ \A e \in 1..Len(emitted') :
                emitted'[e].type = "message_added"
                    => emitted'[e].messageId # messages'[k].id]_vars

\* the last fragment completed a run of three reads, which were replaced
\* by a synthetic turn: two removals were notified
RunOfThreeJustCoalesced ==
    /\ CountType(emitted, "message_removed") = 2
    /\ \E k \in 1..Len(messages) :
           /\ IsSynthetic(messages[k])
           /\ messages[k].content[1].toolResult.count = 3

\* ---- claims about linked tool results (SpecPipe)

\* the notifications of the type among events, in order
OfType(events, type) ==
    LET Is(e) == e.type = type
    IN SelectSeq(events, Is)

\* the tool_result_updated notifications announce exactly the updates, in
\* order, and the owner of each is among the message_updated notifications
Announced(updates, events) ==
    /\ Len(OfType(events, "tool_result_updated")) = Len(updates)
    /\ \A u \in 1..Len(updates) :
          /\ OfType(events, "tool_result_updated")[u].messageId = updates[u].id
          /\ OfType(events, "tool_result_updated")[u].toolUseId = updates[u].toolUseId
          /\ OfType(events, "tool_result_updated")[u].toolResult = updates[u].toolResult
          /\ updates[u].id \in Ids([e \in 1..Len(OfType(events, "message_updated")) |->
                                       [id |-> OfType(events, "message_updated")[e].messageId]])

\* the updates whose owning turn's id is an id of the list
OwnedIn(updates, list) ==
    LET Kept(u) == u.id \in Ids(list)
    IN SelectSeq(updates, Kept)

\* C28 as stated: every tool result the linker attaches while a fragment
\* is processed puts the owning turn among the fragment's message_updated
\* notifications and produces one tool_result_updated notification with
\* the owner's id, the invocation id and the result.
EveryLinkedResultAnnounced ==
    [][Announced(appendRenderableMessage(messages, Processed, nextRef).toolResultUpdates,
                 emitted')]_vars

\* C28, amended: the above holds for the results attached to a turn whose
\* id is still in the history after the fragment's coalescing; a result
\* attached to a turn that the same fragment's coalescing absorbs behind
\* the first turn of its run is announced by neither notification.
KeptLinkedResultAnnounced ==
    [][Announced(OwnedIn(appendRenderableMessage(messages, Processed,
                                                 nextRef).toolResultUpdates, messages'),
                 emitted')]_vars

\* the last fragment attached two results and its coalescing absorbed one
\* of the two owners: one tool_result_updated, one message_removed
LinkedThenAbsorbed ==
    /\ CountType(emitted, "tool_result_updated") = 1
    /\ CountType(emitted, "message_removed") = 1
    /\ fed # <<>>
    /\ Len(fed[Len(fed)].content) = 2

\* ---- claims about overlapping sends (Spec)

\* C29: the cleanup of a send whose stream ends while a newer send is in
\* flight (the Session's in-flight marker and token are the newer send's)
\* leaves the newer send's token, in-flight marker and busy flag alone.
CleanupSparesNewerSend ==
    [][\A c \in Callers :
          (/\ pc[c] = "streaming" /\ pc'[c] = "returning"
           /\ queryPromise \notin {0, c}
           /\ pc[queryPromise] = "streaming")
              => /\ queryPromise' = queryPromise
                 /\ cancellationToken' = cancellationToken
                 /\ busy' = busy]_vars

\* ---- claims about the order of notifications (SpecStream)

\* the place of a notification in the fan-out of one fragment
Rank(type) ==
    IF type \in {"usage_updated", "todos_updated", "tools_updated"} THEN 1
    ELSE IF type = "message_removed" THEN 2
    ELSE IF type = "message_added" THEN 3
    ELSE IF type = "message_updated" THEN 4
    ELSE IF type = "tool_result_updated" THEN 5
    ELSE IF type = "session_info" THEN 6
    ELSE 0

\* C30: the fragments of a stream are processed one at a time in the order
\* of their arrival: the step that takes fragment k off the stream delivers
\* all of its notifications and no others, the aggregate ones first, then
\* message_removed, message_added, message_updated, tool_result_updated,
\* and session_info last, before fragment k + 1 is taken.
FragmentEventsInOrder ==
    [][\A c \in Callers :
          (Len(streamLog'[c]) > Len(streamLog[c]) /\ pc'[c] = "streaming")
              => /\ streamLog'[c] = Append(streamLog[c], streamLog'[c][Len(streamLog'[c])])
                 /\ emitted' # <<>>
                 /\ \A e \in 1..Len(emitted') : Rank(emitted'[e].type) > 0
                 /\ \A e \in 1..(Len(emitted') - 1) :
                        Rank(emitted'[e].type) <= Rank(emitted'[e + 1].type)
                 /\ emitted'[Len(emitted')].type = "session_info"
                 /\ CountType(emitted', "session_info") = 1
                 /\ messages' = coalesceReadMessages(
                                    appendRenderableMessage(
                                        messages, streamLog'[c][Len(streamLog'[c])],
                                        nextRef).messages, nextRef)]_vars

\* the fourth fragment of a stream that wrote todos has just attached two
\* results and merged their reads: removal, addition, update and result
\* notifications in one fan-out
FourthFragmentFansOutAll ==
    /\ Len(streamLog[1]) = 4 /\ pc[1] = "streaming"
    /\ todos # <<>>
    /\ CountType(emitted, "message_removed") > 0
    /\ CountType(emitted, "message_added") > 0
    /\ CountType(emitted, "message_updated") > 0
    /\ CountType(emitted, "tool_result_updated") > 0

\* ---- claims about todo and tool notifications (SpecStream)

\* caller c's stream yielded a fragment in this step and it was processed
Took(c) == Len(streamLog'[c]) > Len(streamLog[c]) /\ pc'[c] = "streaming"
\* that fragment
Taken(c) == streamLog'[c][Len(streamLog'[c])]

\* the fragment is an assistant turn with one write-todos invocation
WritesTodos(message) ==
    /\ message.type = "assistant" /\ Len(message.content) = 1
    /\ message.content[1].type = "tool_use" /\ message.content[1].name = "TodoWrite"

\* the fragment is an initialization fragment with a tool list
ListsTools(message) ==
    message.type = "system" /\ message.subtype = "init" /\ message.tools # <<>>

\* same length, pairwise same content and status
SameTodos(left, right) ==
    /\ Len(left) = Len(right)
    /\ \A j \in 1..Len(left) :
          left[j].content = right[j].content /\ left[j].status = right[j].status

\* C31: outside a load, a write-todos invocation whose array equals the
\* current todo list (same length, pairwise same content and status) emits
\* no todos_updated and one that differs emits exactly one; likewise
\* tools_updated for the tool list of an initialization fragment; no other
\* fragment emits either.
AggregateUpdatesGated ==
    [][\A c \in Callers :
          (Took(c) /\ ~isLoading)
              => /\ CountType(emitted', "todos_updated") =
                        (IF WritesTodos(Taken(c))
                            /\ ~SameTodos(todos, Taken(c).content[1].input)
                         THEN 1 ELSE 0)
                 /\ WritesTodos(Taken(c)) => todos' = Taken(c).content[1].input
                 /\ CountType(emitted', "tools_updated") =
                        (IF ListsTools(Taken(c)) /\ tools # Taken(c).tools[1]
                         THEN 1 ELSE 0)
                 /\ ListsTools(Taken(c)) => tools' = Taken(c).tools[1]]_vars

\* the stream has just repeated the todo list and the tool list the
\* Session already held: the last fragment, a write-todos invocation,
\* emitted no todos_updated
RepeatedTodosSilent ==
    /\ pc[1] = "streaming" /\ Len(streamLog[1]) >= 3
    /\ WritesTodos(streamLog[1][Len(streamLog[1])])
    /\ WritesTodos(streamLog[1][Len(streamLog[1]) - 1])
    /\ todos # <<>> /\ tools # <<>>
    /\ CountType(emitted, "todos_updated") = 0

\* ---- claims about the last-modified timestamp (SpecTime)

\* C32: lastModifiedTime never decreases, whatever sends, fragments (with
\* or without a timestamp of their own) and loads occur.
LastModifiedMonotonic == [][lastModifiedTime' >= lastModifiedTime]_vars

\* ---- claims about the manager's cleanup (SpecCleanFair)

\* without subscribers, remote id and turns
Unused(session) ==
    /\ session.subscribers = {} /\ session.claudeSessionId = NULL
    /\ session.messages = <<>>

\* the session of that identity is in the list and unused
ListedUnused(id) == \E j \in Listed(id) : Unused(sessionsList[j])

\* a grace period is running for the session of that identity
InGrace(id) == \E k \in 1..Len(timers) : timers[k] = id

IdSequence(list) == [j \in 1..Len(list) |-> list[j].id]

\* no id was announced as added twice and no two turns share an id
DistinctIds ==
    /\ \A id \in Elements(addedIds) : Count(addedIds, id) = 1
    /\ Cardinality(Ids(messages)) = Len(messages)

\* C34: when the turns of the stream have pairwise distinct ids, the list
\* an observer builds from the notifications (append on message_added,
\* delete on message_removed, replace on message_updated) is, after every
\* fragment's notifications, the id sequence of the Session's history.
ObserverHoldsHistory == DistinctIds => observed = IdSequence(messages)

\* turns were removed by coalescing and the observer holds the two or more
\* ids of the history that remains
ObserverFollowedCoalescing ==
    /\ DistinctIds /\ removedIds # <<>> /\ Len(messages) >= 2
    /\ observed = IdSequence(messages)

\* ---- claims about a subscriber that throws (SpecThrow)

\* the fragment the stream yielded last and its notifications
LastYielded == streamLog'[1][Len(streamLog'[1])]
FanOutOf(message) == processIncomingMessage(message, Session).events

\* the notifications of emitted other than a closing session_info that
\* reports the Session inactive
BeforeClosing(events) ==
    IF events # <<>> /\ events[Len(events)].type = "session_info"
                    /\ ~events[Len(events)].isActive
    THEN SubSeq(events, 1, Len(events) - 1) ELSE events

\* C35: when a subscriber's callback throws during the fan-out of a stream
\* fragment, the subscriber after it gets only the notifications that came
\* before the one that threw, the loop is left with the promise rejected
\* and no further fragment is processed, the exception's message is the
\* Session's error, and send resolves with success = false and that error.
ThrowingSubscriberEndsSend ==
    [][/\ (error' = CallbackError /\ error # CallbackError)
          => /\ Len(streamLog'[1]) = Len(streamLog[1]) + 1
             /\ \E n \in 0..(Len(FanOutOf(LastYielded)) - 1) :
                    BeforeClosing(emitted') = SubSeq(FanOutOf(LastYielded), 1, n)
             /\ pc'[1] = "returning" /\ promise'[1].state = "rejected"
             /\ ~busy' /\ queryPromise' = 0
       /\ error = CallbackError
          => /\ streamLog' = streamLog /\ messages' = messages
             /\ error' = CallbackError
             /\ pc'[1] = "done"
                    => /\ outcome'[1].state = "resolved" /\ ~outcome'[1].success
                       /\ outcome'[1].error = CallbackError]_vars

\* send has returned without success after the callback threw on the
\* second fragment, whose turn the subscriber after it never heard of
SendFailedByCallback ==
    /\ pc[1] = "done" /\ error = CallbackError /\ Len(streamLog[1]) = 2
    /\ ~outcome[1].success /\ Len(observed) < Len(messages)

\* ---- claims about results for merged invocations (SpecRead)

\* the ids the results of the fragment refer to
ResultIds(message) ==
    {message.content[k].id : k \in {j \in 1..Len(message.content) :
                                        message.content[j].type = "tool_result"}}

\* the invocation of Read with that id arrived in a fragment, and no turn
\* of the history holds it any more
MergedAway(id) ==
    /\ \E f \in 1..Len(fed) : \E k \in 1..Len(fed[f].content) :
           fed[f].content[k].type = "tool_use" /\ fed[f].content[k].id = id
    /\ \A j \in 1..Len(messages) : \A k \in 1..Len(messages[j].content) :
           ~(/\ messages[j].content[k].content.type = "tool_use"
             /\ messages[j].content[k].content.name = "Read"
             /\ messages[j].content[k].content.id = id)

\* C36: a fragment of tool results all of whose invocations were merged
\* into coalesced turns changes no turn of the history and appends the
\* user turn that carries it; its notifications hold no message_updated
\* and no tool_result_updated.
ResultForMergedTurnLinksNothing ==
    [][(/\ fed' # fed /\ ResultIds(Processed) # {}
        /\ \A id \in ResultIds(Processed) : MergedAway(id))
          => /\ Len(messages') = Len(messages) + 1
             /\ SubSeq(messages', 1, Len(messages)) = messages
             /\ messages'[Len(messages')].type = "user"
             /\ OfType(emitted', "message_updated") = <<>>
             /\ OfType(emitted', "tool_result_updated") = <<>>
             /\ Len(OfType(emitted', "message_added")) = 1]_vars

\* the results of two merged invocations arrived once more and their user
\* turn follows the coalesced turn
LateResultAfterCoalescing ==
    /\ Len(fed) = 4 /\ ResultIds(fed[4]) = {1, 2} /\ ResultIds(fed[3]) = {1, 2}
    /\ Len(messages) = 3 /\ messages[1].content[1].content.name = "ReadCoalesced"
    /\ messages[3].type = "user"
    /\ OfType(emitted, "tool_result_updated") = <<>>

\* ---- claims about fragments that yield no turn (SpecPipe)

\* C37: a fragment that yields no turn and carries no tool result, such as
\* a stream_event, leaves the turn list with every turn object, the count,
\* the todos, the tools and the usage as they were, and its only
\* notification is one session_info.
TurnlessFragmentChangesNothing ==
    [][(fed' # fed /\ Processed.type = "stream_event")
          => /\ messages' = messages /\ messageCount' = messageCount
             /\ todos' = todos /\ tools' = tools /\ usageData' = usageData
             /\ emitted' = <<session_info(claudeSessionId, Len(messages),
                                          queryPromise # 0)>>]_vars

\* a stream_event arrived after two reads were coalesced and a further turn
\* was added
StreamEventAfterCoalescing ==
    /\ Len(fed) = 4 /\ fed[4].type = "stream_event"
    /\ Len(messages) = 2 /\ IsSynthetic(messages[1])
    /\ Len(emitted) = 1

\* ---- claims about busy during a stream (SpecTime)

\* the stream of send c is open, it is the Session's send in flight, its
\* token was not cancelled and it has yielded no result fragment
StreamRunning(c) ==
    /\ pc[c] = "streaming" /\ queryPromise = c
    /\ cancellationToken = c /\ ~tokenCancelled[c]
    /\ \A k \in 1..Len(streamLog[c]) : streamLog[c][k].type # "result"

\* C38: while the stream loop of a send is running, no result fragment was
\* processed and cancel() was not called, busy is true, whatever else
\* happens, a load that completes included.
BusyWhileStreaming == \A c \in Callers : StreamRunning(c) => busy

\* ---- claims about the turn count (Spec)

\* C39: after every step of send, fragment processing, load and cancel,
\* messageCount is the length of the stored turn list, and every
\* session_info, the one a new subscriber would be handed included,
\* reports that length.
CountIsLength ==
    /\ messageCount = Len(messages)
    /\ InitialInfo.messageCount = Len(messages)
    /\ \A k \in 1..Len(emitted) :
           emitted[k].type = "session_info" => emitted[k].messageCount = Len(messages)

\* a load has replaced a history by a longer one and announced its length
LoadedCountAnnounced ==
    /\ loadState = "fulfilled" /\ Len(messages) >= 2
    /\ \E k \in 1..Len(emitted) :
           emitted[k].type = "session_info" /\ emitted[k].messageCount = Len(messages)

\* ---- claims about the remote session id (Spec)

\* the step processed a fragment of caller c's stream (the loop did not
\* break on a cancelled token)
ProcessedFrom(c) ==
    /\ Len(streamLog'[c]) = Len(streamLog[c]) + 1
    /\ ~(cancellationToken # 0 /\ tokenCancelled[cancellationToken])

\* C40: claudeSessionId, once set, is never null again; a processed
\* fragment with an empty session_id leaves it as it is and one with a
\* non-empty session_id replaces it; loadFromServer without an argument on
\* a Session without an id returns undefined and changes nothing.
SessionIdIsKept ==
    [][/\ claudeSessionId # NULL => claudeSessionId' # NULL
       /\ \A c \in Callers :
              ProcessedFrom(c)
                  => claudeSessionId' =
                         IF streamLog'[c][Len(streamLog'[c])].session_id # ""
                         THEN streamLog'[c][Len(streamLog'[c])].session_id
                         ELSE claudeSessionId
       /\ (LoadFromServer(NULL) /\ claudeSessionId = NULL)
              => /\ returned' = Append(returned, 0)
                 /\ UNCHANGED <<sessVars, lastModifiedTime, fetches, loadState, fetched>>
                 /\ emitted' = <<>>]_vars

\* the id a load had set was replaced by the id of a result fragment
SessionIdReplaced ==
    /\ claudeSessionId = "s1" /\ fetches > 0
    /\ \E c \in Callers : streamLog[c] # <<>>
====
